---- MODULE Spec2Model ----
(***************************************************************************)
(* Verification model of the documentation-operations toolchain:           *)
(*   - the gap aggregation pipeline (scripts/gap_detection),               *)
(*   - the docs-contract gate (scripts/check_docs_contract.py),            *)
(*   - the API/SDK drift gate (scripts/check_api_sdk_drift.py),            *)
(*   - the KPI SLA evaluation (scripts/evaluate_kpi_sla.py),               *)
(*   - the frontmatter validator (scripts/validate_frontmatter.py),        *)
(*   - the search analytics parser, the community collector and the code   *)
(*     change analyzer (scripts/gap_detection),                            *)
(*   - the batch document generator, the search-analytics input of         *)
(*     run_full_analysis and the command line (scripts/gap_detection),     *)
(*   - the PR Definition-of-Done contract (scripts/validate_pr_dod.py),    *)
(*   - the smoke run of code examples                                      *)
(*     (scripts/check_code_examples_smoke.py).                             *)
(*                                                                         *)
(* Strings are sequences of text runs.  A run is a piece of text without   *)
(* JSON-special characters, or exactly one of the characters " and \.      *)
(* Strings whose length or characters the code inspects (descriptions      *)
(* given to _truncate, file paths given to re.search, formatted numbers)   *)
(* have one character per run.                                             *)
(* Python lists are objects: a list lives in `heap` and is referred to by  *)
(* its index, so that two references to one list see each other's writes.  *)
(***************************************************************************)
EXTENDS Integers, Sequences, FiniteSets, TLC

VARIABLES
    code_result,        \* aggregate_all argument: AnalysisResult or None
    community_result,   \* aggregate_all argument: CollectionResult or None
    algolia_result,     \* aggregate_all argument: AlgoliaResult or None
    heap,               \* the list objects (keywords, sample questions/queries)
    hashOrder,          \* iteration order of a set of strings in this process
    heapBefore,         \* heap as it was when the latest aggregate_all call began
    built,              \* report.gaps of the latest call just before deduplication
    reports,            \* the reports returned so far, oldest first
    now,                \* the clock read by datetime.now()
    json_file,          \* content of doc_gaps_report.json
    loaded,             \* gaps reconstructed by run_batch_generation
    dd_first,           \* _deduplicate_gaps studied alone: one ordering of the gaps
    dd_second,          \*   a second ordering of the same gaps
    dd_heap,            \*   the list objects of those gaps
    dd_out,             \*   the two results
    dc_files,           \* evaluate_contract: the changed files
    dc_report,          \* evaluate_contract: the returned report
    drift_files,        \* check_api_sdk_drift.evaluate: the changed files
    drift_report,       \* check_api_sdk_drift.evaluate: the returned DriftReport
    sla_thresholds,     \* evaluate_kpi_sla.evaluate: the thresholds in force
    sla_current,        \*   the current KPI record
    sla_previous,       \*   the previous KPI record, or None
    sla_report,         \*   the returned SlaReport
    sla_before,         \*   the evaluation before the latest one, with its inputs
    fm_schema,          \* validate_frontmatter: the schema of docs-schema.yml
    fm_doc,             \*   the frontmatter block as its author wrote it, and the file's shape
    fm_text,            \*   the text of the markdown file
    fm_errors,          \*   what validate_file returned
    sq_query,           \* algolia_parser: one SearchQuery
    sq_enriched,        \*   whether _enrich_query has run on it
    cc_feeds,           \* CommunityCollector: self.rss_feeds, each with what fetching it does
    cc_limit,           \*   limit_per_feed
    cc_result,          \*   what collect_all returned, or the exception it raised
    ca_git,             \* CodeChangeAnalyzer: the repository and how git behaves on it
    ca_entry,           \*   the method the caller runs
    ca_order,           \*   iteration order of a set of function names in this process
    ca_result,          \*   the AnalysisResult returned, or the exception raised
    bg_report,          \* BatchDocGenerator: report.gaps
    bg_max_tasks,       \*   max_tasks
    bg_filter,          \*   priority_filter, or None
    bg_env,             \*   the templates, the output directory and the tool of the run
    bg_fs,              \*   the documents written and the prompt file
    bg_batch,           \*   the BatchResult
    bg_before,          \*   the BatchResult as generate_documents received it
    bg_phase,           \*   start, created or generated
    al_csv,             \* run_full_analysis: the file named by algolia_csv
    al_json,            \*   the file named by algolia_json
    al_outcome,         \*   the report returned or the exception raised
    dod_event,          \* validate_pr_dod: pull_request.body of the event
    dod_result,         \*   the verdict, the message and the exit code
    sm_lines,           \* check_code_examples_smoke: the lines of the markdown file
    sm_allow_empty,     \*   allow_empty
    sm_outcomes,        \*   what the interpreter of each smoke block did
    sm_result,          \*   the blocks parsed, the blocks checked, the return code
    cli_argv,           \* gap_detection.cli: sys.argv[1:]
    cli_handler,        \*   what the function of the command does: returns or raises
    cli_exit            \*   the exit code of the process

aggVars == <<code_result, community_result, algolia_result, heap, hashOrder,
             heapBefore, built, reports, now, json_file, loaded>>
ddVars == <<dd_first, dd_second, dd_heap, dd_out>>
dcVars == <<dc_files, dc_report>>
driftVars == <<drift_files, drift_report>>
slaVars == <<sla_thresholds, sla_current, sla_previous, sla_report, sla_before>>
fmVars == <<fm_schema, fm_doc, fm_text, fm_errors>>
sqVars == <<sq_query, sq_enriched>>
ccVars == <<cc_feeds, cc_limit, cc_result>>
caVars == <<ca_git, ca_entry, ca_order, ca_result>>
bgVars == <<bg_report, bg_max_tasks, bg_filter, bg_env, bg_fs, bg_batch, bg_before, bg_phase>>
alVars == <<al_csv, al_json, al_outcome>>
dodVars == <<dod_event, dod_result>>
smVars == <<sm_lines, sm_allow_empty, sm_outcomes, sm_result>>
cliVars == <<cli_argv, cli_handler, cli_exit>>
vars == <<aggVars, ddVars, dcVars, driftVars, slaVars, fmVars, sqVars, ccVars, caVars
         , bgVars, alVars, dodVars, smVars, cliVars>>

----------------------------------------------------------------------------
(* Bounds of the model *)

MaxCode == 1        \* code changes in one AnalysisResult
MaxComm == 2        \* suggestions in one CollectionResult
MaxSrch == 1        \* suggestions in one AlgoliaResult
MaxRuns == 2        \* aggregate_all calls on the same inputs
MaxSame == 3        \* gaps sharing one key given to _deduplicate_gaps alone
MaxFiles == 3       \* changed files in one pull request

----------------------------------------------------------------------------
(* Generic helpers *)

Range(s) == {s[i] : i \in 1..Len(s)}

SeqsUpTo(S, n) == UNION {[1..k -> S] : k \in 0..n}

RECURSIVE Concat(_)
Concat(ss) == IF ss = <<>> THEN <<>> ELSE Head(ss) \o Concat(Tail(ss))

Prefix(s, n) == SubSeq(s, 1, IF n < Len(s) THEN n ELSE Len(s))

\* the orderings of 1..n
Orderings(n) == {p \in [1..n -> 1..n] : \A i, j \in 1..n : p[i] = p[j] => i = j}

----------------------------------------------------------------------------
(* Python string operations used by the aggregator *)

Digit(d) == CASE d = 0 -> "0" [] d = 1 -> "1" [] d = 2 -> "2" [] d = 3 -> "3"
              [] d = 4 -> "4" [] d = 5 -> "5" [] d = 6 -> "6" [] d = 7 -> "7"
              [] d = 8 -> "8" [] d = 9 -> "9"

DigitValue(c) == CHOOSE d \in 0..9 : Digit(d) = c

IsDigit(c) == c \in {Digit(d) : d \in 0..9}

\* str(n) / f'{n}' for n >= 0
RECURSIVE DecStr(_)
DecStr(n) == IF n < 10 THEN <<Digit(n)>> ELSE DecStr(n \div 10) \o <<Digit(n % 10)>>

\* f'{n:04d}': decimal, zero-padded on the left to at least 4 characters
Format04d(n) ==
    LET d == DecStr(n)
    IN  IF Len(d) >= 4 THEN d ELSE [i \in 1..(4 - Len(d)) |-> "0"] \o d

\* s.replace("_", " "), run by run, on the identifiers the aggregator applies it to
ReplaceUnderscoreRun(r) ==
    CASE r = "env_var" -> "env var"
      [] r = "no_results" -> "no results"
      [] r = "low_ctr" -> "low ctr"
      [] OTHER -> r

ReplaceUnderscore(s) == [i \in 1..Len(s) |-> ReplaceUnderscoreRun(s[i])]

\* s.title(), run by run, on the identifiers the aggregator applies it to
TitleRun(r) ==
    CASE r = "webhook" -> "Webhook"
      [] r = "general" -> "General"
      [] r = "env var" -> "Env Var"
      [] r = "env_var" -> "Env_Var"
      [] r = "no results" -> "No Results"
      [] r = "low ctr" -> "Low Ctr"
      [] OTHER -> r

Title(s) == [i \in 1..Len(s) |-> TitleRun(s[i])]

\* ", ".join(items)
RECURSIVE Join(_)
Join(items) ==
    IF items = <<>> THEN <<>>
    ELSE IF Len(items) = 1 THEN Head(items)
    ELSE Head(items) \o <<", ">> \o Join(Tail(items))

_truncate(text, max_len) ==
    IF Len(text) <= max_len THEN text
    ELSE SubSeq(text, 1, max_len - 3) \o <<"...">>

_map_code_to_doc_type(category) ==
    CASE category = <<"api_endpoint">> -> <<"reference">>
      [] category = <<"env_var">> -> <<"reference">>
      [] category = <<"config_option">> -> <<"reference">>
      [] category = <<"cli_command">> -> <<"reference">>
      [] category = <<"public_function">> -> <<"reference">>
      [] category = <<"breaking_change">> -> <<"how-to">>
      [] category = <<"webhook">> -> <<"how-to">>
      [] category = <<"general">> -> <<"how-to">>
      [] OTHER -> <<"how-to">>

\* datetime.now().isoformat() when the clock shows t
IsoFormat(t) == <<"T">> \o DecStr(t)

----------------------------------------------------------------------------
(* The inputs of aggregate_all *)

NoResult == [given |-> FALSE, items |-> <<>>]
Result(items) == [given |-> TRUE, items |-> items]

\* a truth test that takes a result without items for false, as `if code_result.changes:` would
Truthy_NonEmpty(result) == result.given /\ result.items # <<>>

\* `if code_result:` -- an object of a dataclass is true, None is false
Truthy(result) == result.given

High == <<"high">>
Medium == <<"medium">>
Low == <<"low">>
Priorities == {High, Medium, Low}

ShortDescription == <<"o", "n", " ", "\"", "x", "\"">>
LongDescription == [i \in 1..51 |-> "x"]

\* code_analyzer.CodeChange, the fields aggregate_all reads
CodeChange(category, priority, description) ==
    [file_path |-> <<"src/">> \o category \o <<".py">>,
     category |-> category,
     description |-> description,
     priority |-> priority,
     doc_suggestion |-> <<"Document ">> \o category]

CodePool ==
    {CodeChange(<<"webhook">>, Medium, ShortDescription),
     CodeChange(<<"webhook">>, High, ShortDescription),
     CodeChange(<<"env_var">>, Low, LongDescription)}

KeywordUniverse == {<<"retry">>, <<"signature">>}

\* one element of CollectionResult.suggested_docs as _generate_doc_suggestions
\* builds it; keywords and sample_questions are list objects of their own
CommunityTemplate(category, doc_type, frequency, keywords) ==
    [topic |-> category \o <<":">> \o keywords[1],
     frequency |-> frequency,
     suggested_doc_type |-> doc_type,
     keywords |-> keywords,
     category |-> category,
     sample_questions |-> << <<"Why ", "\"", "401", "\"", "?">>, keywords[1] \o <<" fails">> >>,
     priority |-> IF frequency >= 5 THEN High ELSE Medium]

CommunityPool ==
    {CommunityTemplate(<<"webhook">>, <<"how-to">>, 2, << <<"retry">>, <<"signature">> >>),
     CommunityTemplate(<<"webhook">>, <<"how-to">>, 5, << <<"signature">> >>),
     CommunityTemplate(<<"general">>, <<"reference">>, 3, << <<"signature">>, <<"retry">> >>)}

\* one element of AlgoliaResult.suggested_docs as _generate_suggestions builds it
SearchSuggestion(query, reason, count, doc_type, category, priority) ==
    [query |-> query,
     reason |-> reason,
     search_count |-> count,
     suggested_doc_type |-> doc_type,
     category |-> category,
     priority |-> priority,
     action |-> IF reason = <<"no_results">>
                THEN <<"Create ">> \o doc_type \o <<" document for: ", "\"">> \o query \o <<"\"">>
                ELSE <<"Improve documentation for: ", "\"">> \o query \o <<"\"", " (CTR: 5.0%)">>]

SearchPool ==
    {SearchSuggestion(<<"how to webhook">>, <<"no_results">>, 12, <<"how-to">>, <<"webhook">>, High),
     SearchSuggestion(<<"webhook ", "\\", "d">>, <<"no_results">>, 3, <<"reference">>, <<"webhook">>, Low),
     SearchSuggestion(<<"setup">>, <<"low_ctr">>, 25, <<"how-to">>, <<"general">>, Medium)}

\* the i-th suggestion of a CollectionResult refers to the lists 2i-1 and 2i
KeywordsRef(i) == 2 * i - 1
QuestionsRef(i) == 2 * i

CommunitySuggestion(template, i) ==
    [template EXCEPT !.keywords = KeywordsRef(i), !.sample_questions = QuestionsRef(i)]

CommunityHeap(templates) ==
    [a \in 1..(2 * Len(templates)) |->
        IF a % 2 = 1 THEN templates[(a + 1) \div 2].keywords
        ELSE templates[a \div 2].sample_questions]

----------------------------------------------------------------------------
(* gap_aggregator.DocumentationGap and aggregate_all *)

RECURSIVE GapsReturned(_)
GapsReturned(rs) == IF rs = <<>> THEN 0 ELSE Len(Head(rs).gaps) + GapsReturned(Tail(rs))

\* a counter kept on the aggregator object and carried from call to call
StartGapId_Carried(previousReports) == GapsReturned(previousReports)

\* the gap-id counter at the start of a call (gap_id = 0)
StartGapId(previousReports) == 0

\* a counter that is never advanced
NextGapId_Stuck(gap_id) == gap_id

\* gap_id += 1
NextGapId(gap_id) == gap_id + 1

\* The three loops work on: report.gaps, the list objects, the counter.
\* A DocumentationGap gets fresh lists for the list fields it is not given.

RECURSIVE CodeLoop(_, _, _)
CodeLoop(changes, i, st) ==
    IF i > Len(changes) THEN st
    ELSE
        LET change == changes[i]
            gap_id == NextGapId(st.gap_id)
            gap == [id |-> <<"CODE-">> \o Format04d(gap_id),
                    title |-> Title(ReplaceUnderscore(change.category)) \o <<": ">>
                                \o _truncate(change.description, 50),
                    description |-> change.doc_suggestion,
                    source |-> <<"code">>,
                    category |-> change.category,
                    suggested_doc_type |-> _map_code_to_doc_type(change.category),
                    priority |-> change.priority,
                    frequency |-> 1,
                    keywords |-> Len(st.heap) + 1,
                    related_files |-> Len(st.heap) + 2,
                    sample_queries |-> Len(st.heap) + 3,
                    action_required |-> change.doc_suggestion,
                    status |-> <<"new">>,
                    created_at |-> IsoFormat(st.clock)]
        IN  CodeLoop(changes, i + 1,
                     [st EXCEPT !.gaps = Append(@, gap),
                                !.heap = @ \o << <<>>, <<change.file_path>>, <<>> >>,
                                !.gap_id = gap_id])

RECURSIVE CommunityLoop(_, _, _)
CommunityLoop(suggested_docs, i, st) ==
    IF i > Len(suggested_docs) THEN st
    ELSE
        LET suggestion == suggested_docs[i]
            gap_id == NextGapId(st.gap_id)
            gap == [id |-> <<"COMM-">> \o Format04d(gap_id),
                    title |-> Title(suggestion.category) \o <<": ">> \o suggestion.topic,
                    description |-> <<"Frequently asked topic (">>
                                      \o DecStr(suggestion.frequency) \o <<" questions)">>,
                    source |-> <<"community">>,
                    category |-> suggestion.category,
                    suggested_doc_type |-> suggestion.suggested_doc_type,
                    priority |-> suggestion.priority,
                    frequency |-> suggestion.frequency,
                    keywords |-> suggestion.keywords,
                    related_files |-> Len(st.heap) + 1,
                    sample_queries |-> suggestion.sample_questions,
                    action_required |-> <<"Create ">> \o suggestion.suggested_doc_type
                                          \o <<" covering: ">>
                                          \o Join(Prefix(st.heap[suggestion.keywords], 3)),
                    status |-> <<"new">>,
                    created_at |-> IsoFormat(st.clock)]
        IN  CommunityLoop(suggested_docs, i + 1,
                          [st EXCEPT !.gaps = Append(@, gap),
                                     !.heap = Append(@, <<>>),
                                     !.gap_id = gap_id])

RECURSIVE SearchLoop(_, _, _)
SearchLoop(suggested_docs, i, st) ==
    IF i > Len(suggested_docs) THEN st
    ELSE
        LET suggestion == suggested_docs[i]
            gap_id == NextGapId(st.gap_id)
            gap == [id |-> <<"SRCH-">> \o Format04d(gap_id),
                    title |-> <<"Search: ", "\"">> \o suggestion.query \o <<"\"">>,
                    description |-> Title(ReplaceUnderscore(suggestion.reason)) \o <<" - ">>
                                      \o DecStr(suggestion.search_count) \o <<" searches">>,
                    source |-> <<"search">>,
                    category |-> suggestion.category,
                    suggested_doc_type |-> suggestion.suggested_doc_type,
                    priority |-> suggestion.priority,
                    frequency |-> suggestion.search_count,
                    keywords |-> Len(st.heap) + 1,
                    related_files |-> Len(st.heap) + 2,
                    sample_queries |-> Len(st.heap) + 3,
                    action_required |-> suggestion.action,
                    status |-> <<"new">>,
                    created_at |-> IsoFormat(st.clock)]
        IN  SearchLoop(suggested_docs, i + 1,
                       [st EXCEPT !.gaps = Append(@, gap),
                                  !.heap = @ \o << <<>>, <<>>, <<suggestion.query>> >>,
                                  !.gap_id = gap_id])

\* sources_analyzed, in the order of the three `if` statements
SourcesAnalyzed(code, community, algolia) ==
    (IF Truthy(code) THEN << <<"code_changes">> >> ELSE <<>>)
        \o (IF Truthy(community) THEN << <<"community">> >> ELSE <<>>)
        \o (IF Truthy(algolia) THEN << <<"search_analytics">> >> ELSE <<>>)

\* lines 90-148: the gaps of the three sources, before deduplication
BuildGaps(code, community, algolia, h, clock, previousReports) ==
    LET st0 == [gaps |-> <<>>, heap |-> h, gap_id |-> StartGapId(previousReports),
                clock |-> clock]
        st1 == IF Truthy(code) THEN CodeLoop(code.items, 1, st0) ELSE st0
        st2 == IF Truthy(community) THEN CommunityLoop(community.items, 1, st1) ELSE st1
        st3 == IF Truthy(algolia) THEN SearchLoop(algolia.items, 1, st2) ELSE st2
    IN  st3

----------------------------------------------------------------------------
(* _deduplicate_gaps *)

\* f"{gap.category}:{gap.suggested_doc_type}"
GapKey(gap) == gap.category \o <<":">> \o gap.suggested_doc_type

\* list(set(items)): the distinct items, in the iteration order of the set
ListOfSet(items, order) == SelectSeq(order, LAMBDA k : k \in Range(items))

\* existing.frequency = gap.frequency
MergeFrequency_Overwrite(existing, gap) == gap

\* existing.frequency += gap.frequency
MergeFrequency(existing, gap) == existing + gap

\* a merge that keeps the more urgent of the two priorities
MergePriority_Highest(existing, gap) ==
    IF gap = High \/ existing = High THEN High
    ELSE IF gap = Medium \/ existing = Medium THEN Medium
    ELSE existing

\* if gap.priority == 'high': existing.priority = 'high'
MergePriority(existing, gap) == IF gap = High THEN High ELSE existing

\* a merge after which the later gap stands for the key
RECURSIVE DedupLoop_LaterReplaces(_, _, _, _)
DedupLoop_LaterReplaces(gaps, i, st, order) ==
    IF i > Len(gaps) THEN st
    ELSE
        LET gap == gaps[i]
            key == GapKey(gap)
        IN  IF key \in DOMAIN st.seen
            THEN
                LET j == st.seen[key]
                    existing == st.unique[j]
                    h1 == [st.heap EXCEPT ![existing.sample_queries] =
                                @ \o st.heap[gap.sample_queries]]
                    h2 == Append(h1, ListOfSet(h1[existing.keywords] \o h1[gap.keywords], order))
                    merged == [gap EXCEPT
                                  !.frequency = MergeFrequency(existing.frequency, @),
                                  !.keywords = Len(h2),
                                  !.sample_queries = existing.sample_queries,
                                  !.priority = MergePriority(existing.priority, @)]
                IN  DedupLoop_LaterReplaces(gaps, i + 1,
                              [st EXCEPT !.unique[j] = merged, !.heap = h2], order)
            ELSE
                DedupLoop_LaterReplaces(gaps, i + 1,
                          [st EXCEPT !.seen = (key :> (Len(st.unique) + 1)) @@ @,
                                     !.unique = Append(@, gap)], order)

RECURSIVE DedupLoop(_, _, _, _)
DedupLoop(gaps, i, st, order) ==
    IF i > Len(gaps) THEN st
    ELSE
        LET gap == gaps[i]
            key == GapKey(gap)
        IN  IF key \in DOMAIN st.seen
            THEN
                LET j == st.seen[key]
                    existing == st.unique[j]
                    \* existing.sample_queries.extend(gap.sample_queries)
                    h1 == [st.heap EXCEPT ![existing.sample_queries] =
                                @ \o st.heap[gap.sample_queries]]
                    \* existing.keywords = list(set(existing.keywords + gap.keywords))
                    h2 == Append(h1, ListOfSet(h1[existing.keywords] \o h1[gap.keywords], order))
                    merged == [existing EXCEPT
                                  !.frequency = MergeFrequency(@, gap.frequency),
                                  !.keywords = Len(h2),
                                  !.priority = MergePriority(@, gap.priority)]
                IN  DedupLoop(gaps, i + 1,
                              [st EXCEPT !.unique[j] = merged, !.heap = h2], order)
            ELSE
                DedupLoop(gaps, i + 1,
                          [st EXCEPT !.seen = (key :> (Len(st.unique) + 1)) @@ @,
                                     !.unique = Append(@, gap)], order)

\* returns unique_gaps and the list objects as the merges left them
_deduplicate_gaps(gaps, h, order) ==
    LET st == DedupLoop(gaps, 1, [unique |-> <<>>, seen |-> <<>>, heap |-> h], order)
    IN  [gaps |-> st.unique, heap |-> st.heap]

----------------------------------------------------------------------------
(* sorting and summary *)

\* priority_order.get(g.priority, 2)
PriorityRank(priority) ==
    CASE priority = High -> 0
      [] priority = Medium -> 1
      [] priority = Low -> 2
      [] OTHER -> 2

\* the sort key (rank, g.frequency): frequency ascending
SortKeyLess_FrequencyAscending(a, b) ==
    \/ PriorityRank(a.priority) < PriorityRank(b.priority)
    \/ /\ PriorityRank(a.priority) = PriorityRank(b.priority)
       /\ a.frequency < b.frequency

\* the sort key (priority_order.get(g.priority, 2), -g.frequency), compared as tuples
SortKeyLess(a, b) ==
    \/ PriorityRank(a.priority) < PriorityRank(b.priority)
    \/ /\ PriorityRank(a.priority) = PriorityRank(b.priority)
       /\ (0 - a.frequency) < (0 - b.frequency)

RECURSIVE InsertSorted(_, _)
InsertSorted(sorted, gap) ==
    IF sorted = <<>> THEN <<gap>>
    ELSE IF SortKeyLess(gap, Head(sorted)) THEN <<gap>> \o sorted
    ELSE <<Head(sorted)>> \o InsertSorted(Tail(sorted), gap)

RECURSIVE SortFrom(_, _, _)
SortFrom(gaps, i, sorted) ==
    IF i > Len(gaps) THEN sorted
    ELSE SortFrom(gaps, i + 1, InsertSorted(sorted, gaps[i]))

\* report.gaps.sort(key=...): list.sort is stable
SortGaps(gaps) == SortFrom(gaps, 1, <<>>)

\* the value of a field of a gap, by the field's name
Field(gap, name) ==
    CASE name = "id" -> gap.id
      [] name = "title" -> gap.title
      [] name = "description" -> gap.description
      [] name = "source" -> gap.source
      [] name = "category" -> gap.category
      [] name = "suggested_doc_type" -> gap.suggested_doc_type
      [] name = "priority" -> gap.priority
      [] name = "frequency" -> gap.frequency
      [] name = "keywords" -> gap.keywords
      [] name = "related_files" -> gap.related_files
      [] name = "sample_queries" -> gap.sample_queries
      [] name = "action_required" -> gap.action_required
      [] name = "status" -> gap.status
      [] name = "created_at" -> gap.created_at

\* sum(1 for g in report.gaps if g.priority == priority)
CountPriority(gaps, priority) ==
    Cardinality({i \in 1..Len(gaps) : gaps[i].priority = priority})

\* a dict of counters: value of the field -> number of gaps with that value
CountBy(gaps, name) ==
    [v \in {Field(gaps[i], name) : i \in 1..Len(gaps)} |->
        Cardinality({i \in 1..Len(gaps) : Field(gaps[i], name) = v})]

_generate_summary(gaps) ==
    [total_gaps |-> Len(gaps),
     high_priority |-> CountPriority(gaps, High),
     medium_priority |-> CountPriority(gaps, Medium),
     low_priority |-> CountPriority(gaps, Low),
     by_source |-> CountBy(gaps, "source"),
     by_doc_type |-> CountBy(gaps, "suggested_doc_type"),
     by_category |-> CountBy(gaps, "category")]

\* aggregate_all: the returned report and the list objects after the call
aggregate_all(code, community, algolia, h, order, clock, previousReports) ==
    LET b == BuildGaps(code, community, algolia, h, clock, previousReports)
        d == _deduplicate_gaps(b.gaps, b.heap, order)
        sorted == SortGaps(d.gaps)
    IN  [report |-> [gaps |-> sorted,
                     summary |-> _generate_summary(sorted),
                     sources_analyzed |-> SourcesAnalyzed(code, community, algolia),
                     generated_at |-> IsoFormat(clock)],
         built |-> b.gaps,
         heap |-> d.heap]

----------------------------------------------------------------------------
(* save_to_json and the reload of run_batch_generation *)

GapFields ==
    <<"id", "title", "description", "source", "category", "suggested_doc_type",
      "priority", "frequency", "keywords", "related_files", "sample_queries",
      "action_required", "status", "created_at">>

StringFields == {"id", "title", "description", "source", "category",
                 "suggested_doc_type", "priority", "action_required", "status",
                 "created_at"}
ListFields == {"keywords", "related_files", "sample_queries"}

\* DocumentationGap fields without a default value
RequiredFields == {"id", "title", "description", "source", "category",
                   "suggested_doc_type", "priority"}

\* a writer that copies every character as it is
JsonEscapeRun_Raw(r) == <<r>>

\* json.dumps of a str (ensure_ascii=False): quoted, with " and \ escaped
JsonEscapeRun(r) == IF r = "\"" \/ r = "\\" THEN <<"\\", r>> ELSE <<r>>

RECURSIVE JsonEscape(_)
JsonEscape(s) == IF s = <<>> THEN <<>> ELSE JsonEscapeRun(Head(s)) \o JsonEscape(Tail(s))

JsonString(s) == <<"\"">> \o JsonEscape(s) \o <<"\"">>

\* json.dumps of a non-negative int
JsonNumber(n) == DecStr(n)

\* asdict(gap) followed by json.dump: the members of one object, in field
\* order; asdict copies the lists, so a member holds the list's content
JsonMember(gap, name, h) ==
    IF name \in StringFields THEN [key |-> name, kind |-> "text", text |-> JsonString(Field(gap, name))]
    ELSE IF name \in ListFields
    THEN [key |-> name, kind |-> "array",
          text |-> [i \in 1..Len(h[Field(gap, name)]) |-> JsonString(h[Field(gap, name)][i])]]
    ELSE [key |-> name, kind |-> "text", text |-> JsonNumber(Field(gap, name))]

JsonGap(gap, h) == [i \in 1..Len(GapFields) |-> JsonMember(gap, GapFields[i], h)]

JsonCounters(d) == [k \in DOMAIN d |-> JsonNumber(d[k])]

\* the document save_to_json writes for a report
save_to_json(report, h) ==
    [summary |-> [total_gaps |-> JsonNumber(report.summary.total_gaps),
                  high_priority |-> JsonNumber(report.summary.high_priority),
                  medium_priority |-> JsonNumber(report.summary.medium_priority),
                  low_priority |-> JsonNumber(report.summary.low_priority),
                  by_source |-> JsonCounters(report.summary.by_source),
                  by_doc_type |-> JsonCounters(report.summary.by_doc_type),
                  by_category |-> JsonCounters(report.summary.by_category)],
     sources_analyzed |-> [i \in 1..Len(report.sources_analyzed) |->
                              JsonString(report.sources_analyzed[i])],
     generated_at |-> JsonString(report.generated_at),
     gaps |-> [i \in 1..Len(report.gaps) |-> JsonGap(report.gaps[i], h)]]

\* json.load of a string: the text between the opening quote and the first
\* quote that is not escaped, with the escapes undone; `pos` is the run read next
RECURSIVE ParseStringFrom(_, _, _)
ParseStringFrom(text, pos, acc) ==
    IF pos > Len(text) THEN [ok |-> FALSE, value |-> acc]
    ELSE IF text[pos] = "\"" THEN [ok |-> pos = Len(text), value |-> acc]
    ELSE IF text[pos] = "\\"
         THEN IF pos + 1 > Len(text) THEN [ok |-> FALSE, value |-> acc]
              ELSE ParseStringFrom(text, pos + 2, Append(acc, text[pos + 1]))
    ELSE ParseStringFrom(text, pos + 1, Append(acc, text[pos]))

JsonParseString(text) ==
    IF text # <<>> /\ text[1] = "\"" THEN ParseStringFrom(text, 2, <<>>)
    ELSE [ok |-> FALSE, value |-> <<>>]

RECURSIVE ParseNumberFrom(_, _, _)
ParseNumberFrom(text, pos, acc) ==
    IF pos > Len(text) THEN acc
    ELSE ParseNumberFrom(text, pos + 1, 10 * acc + DigitValue(text[pos]))

JsonParseNumber(text) ==
    IF text # <<>> /\ \A i \in 1..Len(text) : IsDigit(text[i])
    THEN [ok |-> TRUE, value |-> ParseNumberFrom(text, 1, 0)]
    ELSE [ok |-> FALSE, value |-> 0]

\* the value json.load gives for one member
JsonParseMember(member) ==
    IF member.kind = "array"
    THEN [ok |-> \A i \in 1..Len(member.text) : JsonParseString(member.text[i]).ok,
          value |-> [i \in 1..Len(member.text) |-> JsonParseString(member.text[i]).value]]
    ELSE IF member.text # <<>> /\ member.text[1] = "\"" THEN JsonParseString(member.text)
    ELSE JsonParseNumber(member.text)

MemberOf(object, name) == object[CHOOSE i \in 1..Len(object) : object[i].key = name]
HasMember(object, name) == \E i \in 1..Len(object) : object[i].key = name

\* DocumentationGap(**g): every key must be a field, every field without a
\* default must be given; lists become list objects of the new process
\* (the k-th gap owns the lists 3k-2, 3k-1, 3k)
GapFromDict(object, k, clock) ==
    LET val(name) == JsonParseMember(MemberOf(object, name)).value
        given(name, default) == IF HasMember(object, name) THEN val(name) ELSE default
    IN  [id |-> val("id"),
         title |-> val("title"),
         description |-> val("description"),
         source |-> val("source"),
         category |-> val("category"),
         suggested_doc_type |-> val("suggested_doc_type"),
         priority |-> val("priority"),
         frequency |-> given("frequency", 1),
         keywords |-> 3 * k - 2,
         related_files |-> 3 * k - 1,
         sample_queries |-> 3 * k,
         action_required |-> given("action_required", <<>>),
         status |-> given("status", <<"new">>),
         created_at |-> given("created_at", IsoFormat(clock))]

GapDictAccepted(object) ==
    /\ \A i \in 1..Len(object) : object[i].key \in Range(GapFields)
    /\ \A name \in RequiredFields : HasMember(object, name)
    /\ \A i \in 1..Len(object) : JsonParseMember(object[i]).ok

ListsFromDict(object) ==
    LET given(name) == IF HasMember(object, name)
                       THEN JsonParseMember(MemberOf(object, name)).value ELSE <<>>
    IN  <<given("keywords"), given("related_files"), given("sample_queries")>>

\* lines 441-451 of batch_generator.py: the AggregatedReport rebuilt from the file
LoadReport(file, clock) ==
    IF \A i \in 1..Len(file.gaps) : GapDictAccepted(file.gaps[i])
    THEN [ok |-> TRUE,
          gaps |-> [k \in 1..Len(file.gaps) |-> GapFromDict(file.gaps[k], k, clock)],
          heap |-> Concat([k \in 1..Len(file.gaps) |-> ListsFromDict(file.gaps[k])]),
          sources_analyzed |-> [i \in 1..Len(file.sources_analyzed) |->
                                   JsonParseString(file.sources_analyzed[i]).value],
          generated_at |-> JsonParseString(file.generated_at).value,
          total_gaps |-> JsonParseNumber(file.summary.total_gaps).value]
    ELSE [ok |-> FALSE, gaps |-> <<>>, heap |-> <<>>, sources_analyzed |-> <<>>,
          generated_at |-> <<>>, total_gaps |-> 0]

----------------------------------------------------------------------------
(* The aggregation pipeline as a state machine *)

SetOrderings(S) == {o \in [1..Cardinality(S) -> S] : Range(o) = S}

NoFile == [exists |-> FALSE,
           data |-> [summary |-> <<>>, sources_analyzed |-> <<>>,
                     generated_at |-> <<>>, gaps |-> <<>>]]

NotLoaded == [state |-> "none", gaps |-> <<>>, heap |-> <<>>, sources_analyzed |-> <<>>,
              generated_at |-> <<>>, total_gaps |-> 0]

AggIdle ==
    /\ code_result = NoResult
    /\ community_result = NoResult
    /\ algolia_result = NoResult
    /\ heap = <<>>
    /\ heapBefore = <<>>
    /\ built = <<>>
    /\ reports = <<>>
    /\ now = 0
    /\ json_file = NoFile
    /\ loaded = NotLoaded

DdIdle ==
    /\ dd_first = <<>>
    /\ dd_second = <<>>
    /\ dd_heap = <<>>
    /\ dd_out = <<>>

DcIdle ==
    /\ dc_files = <<>>
    /\ dc_report = [evaluated |-> FALSE]

DriftIdle ==
    /\ drift_files = <<>>
    /\ drift_report = [evaluated |-> FALSE]

SlaIdle ==
    /\ sla_thresholds = <<>>
    /\ sla_current = <<>>
    /\ sla_previous = <<>>
    /\ sla_report = [evaluated |-> FALSE]
    /\ sla_before = [evaluated |-> FALSE]

FmIdle ==
    /\ fm_schema = <<>>
    /\ fm_doc = <<>>
    /\ fm_text = <<>>
    /\ fm_errors = [returned |-> FALSE]

SqIdle ==
    /\ sq_query = <<>>
    /\ sq_enriched = FALSE

CcIdle ==
    /\ cc_feeds = <<>>
    /\ cc_limit = 0
    /\ cc_result = [state |-> "none"]

CaIdle ==
    /\ ca_git = [installed |-> TRUE, failing |-> {}, commits |-> <<>>]
    /\ ca_entry = "none"
    /\ ca_order = <<>>
    /\ ca_result = [state |-> "none"]

BgIdle ==
    /\ bg_report = <<>>
    /\ bg_max_tasks = 0
    /\ bg_filter = [given |-> FALSE, priorities |-> <<>>]
    /\ bg_env = [use_claude |-> FALSE, tool |-> "unused", templates |-> {}, writable |-> TRUE]
    /\ bg_fs = [documents |-> <<>>, prompt_file |-> FALSE]
    /\ bg_batch = [tasks |-> <<>>, generated_files |-> <<>>, errors |-> <<>>, claude_prompt |-> <<>>]
    /\ bg_before = [tasks |-> <<>>, generated_files |-> <<>>, errors |-> <<>>, claude_prompt |-> <<>>]
    /\ bg_phase = "start"

AlIdle ==
    /\ al_csv = [given |-> FALSE]
    /\ al_json = [given |-> FALSE]
    /\ al_outcome = [state |-> "none"]

DodIdle ==
    /\ dod_event = [is_str |-> FALSE, lines |-> <<>>]
    /\ dod_result = [ran |-> FALSE]

SmIdle ==
    /\ sm_lines = <<>>
    /\ sm_allow_empty = FALSE
    /\ sm_outcomes = <<>>
    /\ sm_result = [state |-> "none"]

CliIdle ==
    /\ cli_argv = <<>>
    /\ cli_handler = "returns"
    /\ cli_exit = [ran |-> FALSE]

\* the caller's arguments: each of the three results is None or a result object
AggInit ==
    /\ code_result \in {NoResult} \cup {Result(c) : c \in SeqsUpTo(CodePool, MaxCode)}
    /\ \E t \in SeqsUpTo(CommunityPool, MaxComm), given \in BOOLEAN :
          /\ given \/ t = <<>>
          /\ community_result =
                IF given THEN Result([i \in 1..Len(t) |-> CommunitySuggestion(t[i], i)])
                ELSE NoResult
          /\ heap = CommunityHeap(t)
    /\ algolia_result \in {NoResult} \cup {Result(q) : q \in SeqsUpTo(SearchPool, MaxSrch)}
    /\ hashOrder \in SetOrderings(KeywordUniverse)
    /\ heapBefore = heap
    /\ built = <<>>
    /\ reports = <<>>
    /\ now = 1
    /\ json_file = NoFile
    /\ loaded = NotLoaded

Init == AggInit /\ DdIdle /\ DcIdle /\ DriftIdle /\ SlaIdle /\ FmIdle /\ SqIdle
    /\ CcIdle /\ CaIdle /\ BgIdle /\ AlIdle /\ DodIdle /\ SmIdle /\ CliIdle

\* report = aggregator.aggregate_all(code_result, community_result, algolia_result)
AggregateAll ==
    /\ Len(reports) < MaxRuns
    /\ LET r == aggregate_all(code_result, community_result, algolia_result,
                              heap, hashOrder, now, reports)
       IN  /\ heapBefore' = heap
           /\ heap' = r.heap
           /\ built' = r.built
           /\ reports' = Append(reports, r.report)
    /\ now' = now + 1
    /\ UNCHANGED <<code_result, community_result, algolia_result, hashOrder,
                   json_file, loaded>>

\* aggregator.save_to_json(report) for one of the returned reports
SaveToJson ==
    /\ \E r \in 1..Len(reports) :
          json_file' = [exists |-> TRUE, data |-> save_to_json(reports[r], heap)]
    /\ UNCHANGED <<code_result, community_result, algolia_result, heap, hashOrder,
                   heapBefore, built, reports, now, loaded>>

\* run_batch_generation(report_path): the report is rebuilt from the file
RunBatchGeneration ==
    /\ json_file.exists
    /\ LET r == LoadReport(json_file.data, now)
       IN  loaded' = [state |-> IF r.ok THEN "loaded" ELSE "error",
                      gaps |-> r.gaps, heap |-> r.heap,
                      sources_analyzed |-> r.sources_analyzed,
                      generated_at |-> r.generated_at,
                      total_gaps |-> r.total_gaps]
    /\ UNCHANGED <<code_result, community_result, algolia_result, heap, hashOrder,
                   heapBefore, built, reports, now, json_file>>

Next ==
    \/ /\ AggregateAll
       /\ UNCHANGED <<ddVars, dcVars, driftVars, slaVars, fmVars, sqVars, ccVars, caVars, bgVars
                     , alVars, dodVars, smVars, cliVars>>
    \/ /\ SaveToJson
       /\ UNCHANGED <<ddVars, dcVars, driftVars, slaVars, fmVars, sqVars, ccVars, caVars, bgVars
                     , alVars, dodVars, smVars, cliVars>>
    \/ /\ RunBatchGeneration
       /\ UNCHANGED <<ddVars, dcVars, driftVars, slaVars, fmVars, sqVars, ccVars, caVars, bgVars
                     , alVars, dodVars, smVars, cliVars>>

Spec == Init /\ [][Next]_vars

----------------------------------------------------------------------------
(* Properties of the aggregation pipeline *)

LastReport == reports[Len(reports)]

Keys(gaps) == {GapKey(gaps[i]) : i \in 1..Len(gaps)}

WithKey(gaps, key) == SelectSeq(gaps, LAMBDA g : GapKey(g) = key)

RECURSIVE SumFrequency(_)
SumFrequency(gaps) ==
    IF gaps = <<>> THEN 0 ELSE Head(gaps).frequency + SumFrequency(Tail(gaps))

Ids(gaps) == [i \in 1..Len(gaps) |-> gaps[i].id]

\* the position a gap of the latest report had before deduplication and sorting
BuiltIndex(id) == CHOOSE k \in 1..Len(built) : built[k].id = id

\* the list objects the caller handed in: those of the community suggestions
InputLists == 1..(2 * Len(community_result.items))

\* C1: the latest report holds exactly one gap per distinct category:doc_type
\* key of the gaps built from the inputs; its frequency is the sum of the
\* frequencies of the built gaps with that key, and its priority is high if
\* any of them was high.
C1_OneGapPerKeyWithSummedFrequency ==
    reports # <<>> =>
        LET out == LastReport.gaps
        IN  /\ Keys(out) = Keys(built)
            /\ \A k \in Keys(built) : Len(WithKey(out, k)) = 1
            /\ \A i \in 1..Len(out) :
                  LET same == WithKey(built, GapKey(out[i]))
                  IN  /\ out[i].frequency = SumFrequency(same)
                      /\ (\E j \in 1..Len(same) : same[j].priority = High)
                            => out[i].priority = High

\* a merge of at least two gaps whose first is not high and a later one is
C1_Witness ==
    /\ reports # <<>>
    /\ \E i \in 1..Len(LastReport.gaps) :
          LET same == WithKey(built, GapKey(LastReport.gaps[i]))
          IN  /\ Len(same) >= 2
              /\ same[1].priority # High
              /\ \E j \in 2..Len(same) : same[j].priority = High
              /\ LastReport.gaps[i].frequency > same[1].frequency

\* C3: within every returned report no two gaps have the same id.
C3_IdsUniqueInReport ==
    \A r \in 1..Len(reports) :
        \A i, j \in 1..Len(reports[r].gaps) :
            reports[r].gaps[i].id = reports[r].gaps[j].id => i = j

\* a report with gaps of all three sources, one of them the result of a merge
C3_Witness ==
    /\ reports # <<>>
    /\ Len(LastReport.gaps) >= 3
    /\ Len(LastReport.gaps) < Len(built)
    /\ {<<"code">>, <<"community">>, <<"search">>} \subseteq
          {built[i].source : i \in 1..Len(built)}

\* C4: in every returned report a gap of lower priority rank never precedes
\* one of higher rank (high, then medium, then low), and among gaps of equal
\* priority the frequency never increases.
C4_SortedByPriorityThenFrequency ==
    \A r \in 1..Len(reports) :
        \A i, j \in 1..Len(reports[r].gaps) :
            i < j =>
                LET a == reports[r].gaps[i]
                    b == reports[r].gaps[j]
                IN  /\ PriorityRank(a.priority) <= PriorityRank(b.priority)
                    /\ a.priority = b.priority => a.frequency >= b.frequency

\* a report with all three priorities in which the sort moved a gap forward
C4_Witness ==
    /\ reports # <<>>
    /\ {LastReport.gaps[i].priority : i \in 1..Len(LastReport.gaps)} = Priorities
    /\ \E i, j \in 1..Len(LastReport.gaps) :
          /\ i < j
          /\ BuiltIndex(LastReport.gaps[i].id) > BuiltIndex(LastReport.gaps[j].id)

\* C5: after a call every list the caller handed in (keywords and
\* sample_questions of every community suggestion) holds what it held when
\* the call began.
C5_InputsUnchanged ==
    reports # <<>> => \A a \in InputLists : heap[a] = heapBefore[a]

\* C6: the gaps rebuilt from the saved file are those of the saved report:
\* same length, same order, same id, title, priority and category.
C6_JsonRoundTrip ==
    loaded.state # "none" =>
        /\ loaded.state = "loaded"
        /\ \E r \in 1..Len(reports) :
              /\ reports[r].generated_at = loaded.generated_at
              /\ Len(loaded.gaps) = Len(reports[r].gaps)
              /\ \A i \in 1..Len(loaded.gaps) :
                    /\ loaded.gaps[i].id = reports[r].gaps[i].id
                    /\ loaded.gaps[i].title = reports[r].gaps[i].title
                    /\ loaded.gaps[i].priority = reports[r].gaps[i].priority
                    /\ loaded.gaps[i].category = reports[r].gaps[i].category

\* a report of several gaps was reloaded, one title holding a quote and one a backslash
C6_Witness ==
    /\ loaded.state = "loaded"
    /\ Len(loaded.gaps) >= 2
    /\ \E i \in 1..Len(loaded.gaps) : "\"" \in Range(loaded.gaps[i].title)
    /\ \E i \in 1..Len(loaded.gaps) : "\\" \in Range(loaded.gaps[i].title)

\* C7 as claimed: a second call on the same inputs gives some gap (the gap of
\* some key) another id than the first call gave it.
C7_RerunRenumbersSomeGap ==
    (Len(reports) >= 2 /\ reports[1].gaps # <<>>) =>
        \E k \in Keys(reports[1].gaps) :
            \/ k \notin Keys(reports[2].gaps)
            \/ WithKey(reports[1].gaps, k)[1].id # WithKey(reports[2].gaps, k)[1].id

\* C7 as amended: every call on the same inputs returns the same gaps in the
\* same order with the same ids.
C7_IdsStableAcrossCalls ==
    \A r, q \in 1..Len(reports) :
        /\ Ids(reports[r].gaps) = Ids(reports[q].gaps)
        /\ \A i \in 1..Len(reports[r].gaps) :
              GapKey(reports[r].gaps[i]) = GapKey(reports[q].gaps[i])

\* two calls were made and the report has gaps of more than one source
C7_Witness ==
    /\ Len(reports) >= 2
    /\ Len(reports[2].gaps) >= 2
    /\ Cardinality({reports[2].gaps[i].source : i \in 1..Len(reports[2].gaps)}) >= 2

\* C8: sources_analyzed names exactly the sources that were supplied, in the
\* order code_changes, community, search_analytics; a source that was not
\* supplied contributes no gap; with no source supplied the report is empty
\* and summary.total_gaps is 0.
C8_OmittedSources ==
    reports # <<>> =>
        /\ LastReport.sources_analyzed =
              (IF code_result.given THEN << <<"code_changes">> >> ELSE <<>>)
                \o (IF community_result.given THEN << <<"community">> >> ELSE <<>>)
                \o (IF algolia_result.given THEN << <<"search_analytics">> >> ELSE <<>>)
        /\ \A i \in 1..Len(built) :
              /\ built[i].source = <<"code">> => code_result.given
              /\ built[i].source = <<"community">> => community_result.given
              /\ built[i].source = <<"search">> => algolia_result.given
        /\ (~code_result.given /\ ~community_result.given /\ ~algolia_result.given)
              => (LastReport.gaps = <<>> /\ LastReport.summary.total_gaps = 0)

\* one source omitted, one supplied without any item, one supplied with items
C8_Witness ==
    /\ reports # <<>>
    /\ ~code_result.given
    /\ community_result.given /\ community_result.items = <<>>
    /\ algolia_result.given /\ algolia_result.items # <<>>
    /\ LastReport.gaps # <<>>

\* no source supplied
C8_WitnessAllOmitted ==
    /\ reports # <<>>
    /\ ~code_result.given /\ ~community_result.given /\ ~algolia_result.given

----------------------------------------------------------------------------
(* _deduplicate_gaps alone, on two orderings of gaps that share one key *)

\* the i-th gap; it owns the lists 3i-2 (keywords), 3i-1 (related_files), 3i (sample_queries)
SameKeyGap(i, priority) ==
    [id |-> <<"CODE-">> \o Format04d(i),
     title |-> <<"Webhook: gap ">> \o DecStr(i),
     description |-> <<"Document webhook">>,
     source |-> <<"code">>,
     category |-> <<"webhook">>,
     suggested_doc_type |-> <<"how-to">>,
     priority |-> priority,
     frequency |-> i,
     keywords |-> 3 * i - 2,
     related_files |-> 3 * i - 1,
     sample_queries |-> 3 * i,
     action_required |-> <<"Document webhook">>,
     status |-> <<"new">>,
     created_at |-> IsoFormat(1)]

SameKeyHeap(n) ==
    [a \in 1..(3 * n) |->
        IF a % 3 = 1 THEN (IF a % 2 = 1 THEN << <<"retry">> >> ELSE << <<"signature">> >>)
        ELSE IF a % 3 = 2 THEN << <<"src/webhook.py">> >>
        ELSE << <<"question ">> \o DecStr(a \div 3) >>]

DdInit ==
    /\ \E n \in 1..MaxSame : \E o \in Orderings(n), prio \in [1..n -> Priorities] :
          /\ dd_first = [i \in 1..n |-> SameKeyGap(i, prio[i])]
          /\ dd_second = [i \in 1..n |-> SameKeyGap(o[i], prio[o[i]])]
          /\ dd_heap = SameKeyHeap(n)
    /\ dd_out = <<>>
    /\ hashOrder \in SetOrderings(KeywordUniverse)

\* the two lists are deduplicated, each starting from gaps as they were built
DeduplicateBothOrderings ==
    /\ dd_out = <<>>
    /\ dd_out' = <<_deduplicate_gaps(dd_first, dd_heap, hashOrder),
                   _deduplicate_gaps(dd_second, dd_heap, hashOrder)>>
    /\ UNCHANGED <<dd_first, dd_second, dd_heap>>

InitDedup == DdInit /\ AggIdle /\ DcIdle /\ DriftIdle /\ SlaIdle /\ FmIdle /\ SqIdle
    /\ CcIdle /\ CaIdle /\ BgIdle /\ AlIdle /\ DodIdle /\ SmIdle /\ CliIdle

NextDedup ==
    /\ DeduplicateBothOrderings
    /\ UNCHANGED <<aggVars, dcVars, driftVars, slaVars, fmVars, sqVars, ccVars, caVars, bgVars
                   , alVars, dodVars, smVars, cliVars>>

SpecDedup == InitDedup /\ [][NextDedup]_vars

SomeHigh(gaps) == \E i \in 1..Len(gaps) : gaps[i].priority = High

\* C2 as claimed: both orderings give the merged gap the same priority.
C2_PriorityOrderIndependent ==
    dd_out # <<>> => dd_out[1].gaps[1].priority = dd_out[2].gaps[1].priority

\* C2 as amended: the merged priority is high in both orderings when some gap
\* is high; when none is high it is the priority of the gap that comes first
\* in the ordering.
C2_PriorityHighOrFirst ==
    dd_out # <<>> =>
        /\ Len(dd_out[1].gaps) = 1 /\ Len(dd_out[2].gaps) = 1
        /\ dd_out[1].gaps[1].priority =
              IF SomeHigh(dd_first) THEN High ELSE dd_first[1].priority
        /\ dd_out[2].gaps[1].priority =
              IF SomeHigh(dd_second) THEN High ELSE dd_second[1].priority

\* three gaps, one of them high, the orderings starting with low and with medium
C2_Witness ==
    /\ dd_out # <<>>
    /\ Len(dd_first) >= 3
    /\ dd_first[1].priority = Low
    /\ dd_second[1].priority = Medium
    /\ SomeHigh(dd_first)
    /\ dd_out[1].gaps[1].priority = High
    /\ dd_out[2].gaps[1].priority = High

----------------------------------------------------------------------------
(* re.search(pattern, path, re.IGNORECASE) for the patterns of the two gates *)
(* A path is a sequence of characters without a line break.                  *)

\* the lower-case form on which IGNORECASE compares two characters
Lower(c) ==
    CASE c = "A" -> "a"
      [] c = "B" -> "b"
      [] c = "C" -> "c"
      [] c = "D" -> "d"
      [] c = "E" -> "e"
      [] c = "F" -> "f"
      [] c = "G" -> "g"
      [] c = "H" -> "h"
      [] c = "I" -> "i"
      [] c = "J" -> "j"
      [] c = "K" -> "k"
      [] c = "L" -> "l"
      [] c = "M" -> "m"
      [] c = "N" -> "n"
      [] c = "O" -> "o"
      [] c = "P" -> "p"
      [] c = "Q" -> "q"
      [] c = "R" -> "r"
      [] c = "S" -> "s"
      [] c = "T" -> "t"
      [] c = "U" -> "u"
      [] c = "V" -> "v"
      [] c = "W" -> "w"
      [] c = "X" -> "x"
      [] c = "Y" -> "y"
      [] c = "Z" -> "z"
      [] OTHER -> c

\* the literal text `lit` occurs in `path` at position i, letter case ignored
MatchAt(path, i, lit) ==
    /\ i >= 1
    /\ i + Len(lit) - 1 <= Len(path)
    /\ \A k \in 1..Len(lit) : Lower(path[i + k - 1]) = Lower(lit[k])

\* The patterns of both gates have the shape  [^] (h1|h2|..) [ .* (t1|t2|..) ] [$]:
\* `start` is the anchor ^, `heads` the literal alternatives the match begins
\* with, `tails` the literal alternatives that follow .* (empty: the pattern
\* has no .* part), `end` the anchor $.
Search(pattern, path) ==
    \E i \in 1..(Len(path) + 1) :
        /\ pattern.start => i = 1
        /\ \E h \in pattern.heads :
              /\ MatchAt(path, i, h)
              /\ IF pattern.tails = {}
                 THEN pattern.end => i + Len(h) - 1 = Len(path)
                 ELSE \E t \in pattern.tails : \E j \in (i + Len(h))..(Len(path) + 1) :
                          /\ MatchAt(path, j, t)
                          /\ pattern.end => j + Len(t) - 1 = Len(path)

----------------------------------------------------------------------------
(* scripts/check_docs_contract.py *)

INTERFACE_PATTERNS == <<
    \* r"^api/"
    [start |-> TRUE, heads |-> {<<"a", "p", "i", "/">>},
     tails |-> {}, end |-> FALSE],
    \* r"openapi.*\.(ya?ml|json)$"
    [start |-> FALSE, heads |-> {<<"o", "p", "e", "n", "a", "p", "i">>},
     tails |-> {<<".", "y", "a", "m", "l">>, <<".", "y", "m", "l">>, <<".", "j", "s", "o", "n">>}, end |-> TRUE],
    \* r"swagger.*\.(ya?ml|json)$"
    [start |-> FALSE, heads |-> {<<"s", "w", "a", "g", "g", "e", "r">>},
     tails |-> {<<".", "y", "a", "m", "l">>, <<".", "y", "m", "l">>, <<".", "j", "s", "o", "n">>}, end |-> TRUE],
    \* r"api-spec.*\.(ya?ml|json)$"
    [start |-> FALSE, heads |-> {<<"a", "p", "i", "-", "s", "p", "e", "c">>},
     tails |-> {<<".", "y", "a", "m", "l">>, <<".", "y", "m", "l">>, <<".", "j", "s", "o", "n">>}, end |-> TRUE],
    \* r"^src/.*/(routes|controllers|handlers|public|sdk)/"
    [start |-> TRUE, heads |-> {<<"s", "r", "c", "/">>},
     tails |-> {<<"/", "r", "o", "u", "t", "e", "s", "/">>, <<"/", "c", "o", "n", "t", "r", "o", "l", "l", "e", "r", "s", "/">>, <<"/", "h", "a", "n", "d", "l", "e", "r", "s", "/">>, <<"/", "p", "u", "b", "l", "i", "c", "/">>, <<"/", "s", "d", "k", "/">>}, end |-> FALSE],
    \* r"^sdk/"
    [start |-> TRUE, heads |-> {<<"s", "d", "k", "/">>},
     tails |-> {}, end |-> FALSE],
    \* r"^clients/"
    [start |-> TRUE, heads |-> {<<"c", "l", "i", "e", "n", "t", "s", "/">>},
     tails |-> {}, end |-> FALSE]>>

DOC_PATTERNS == <<
    \* r"^docs/"
    [start |-> TRUE, heads |-> {<<"d", "o", "c", "s", "/">>},
     tails |-> {}, end |-> FALSE],
    \* r"^templates/"
    [start |-> TRUE, heads |-> {<<"t", "e", "m", "p", "l", "a", "t", "e", "s", "/">>},
     tails |-> {}, end |-> FALSE],
    \* r"^\.vscode/docs\.code-snippets$"
    [start |-> TRUE, heads |-> {<<".", "v", "s", "c", "o", "d", "e", "/", "d", "o", "c", "s", ".", "c", "o", "d", "e", "-", "s", "n", "i", "p", "p", "e", "t", "s">>},
     tails |-> {}, end |-> TRUE],
    \* r"^README_SETUP\.md$"
    [start |-> TRUE, heads |-> {<<"R", "E", "A", "D", "M", "E", "_", "S", "E", "T", "U", "P", ".", "m", "d">>},
     tails |-> {}, end |-> TRUE],
    \* r"^SETUP_GUIDE\.md$"
    [start |-> TRUE, heads |-> {<<"S", "E", "T", "U", "P", "_", "G", "U", "I", "D", "E", ".", "m", "d">>},
     tails |-> {}, end |-> TRUE],
    \* r"^SETUP_FOR_PROJECTS\.md$"
    [start |-> TRUE, heads |-> {<<"S", "E", "T", "U", "P", "_", "F", "O", "R", "_", "P", "R", "O", "J", "E", "C", "T", "S", ".", "m", "d">>},
     tails |-> {}, end |-> TRUE]>>

\* any(re.search(pattern, path, re.IGNORECASE) for pattern in patterns)
_matches_any(path, patterns) == \E k \in 1..Len(patterns) : Search(patterns[k], path)

\* a gate that demands a documentation change instead of accepting one
Blocked_DocsRequired(interface_changed, docs_changed) ==
    interface_changed # <<>> /\ docs_changed # <<>>

\* "blocked": bool(interface_changed) and not bool(docs_changed)
Blocked(interface_changed, docs_changed) ==
    interface_changed # <<>> /\ ~(docs_changed # <<>>)

evaluate_contract(files, interface_patterns, doc_patterns) ==
    LET interface_changed == SelectSeq(files, LAMBDA path : _matches_any(path, interface_patterns))
        docs_changed == SelectSeq(files, LAMBDA path : _matches_any(path, doc_patterns))
    IN  [evaluated |-> TRUE,
         interface_changed |-> interface_changed,
         docs_changed |-> docs_changed,
         blocked |-> Blocked(interface_changed, docs_changed)]

\* changed paths: interface files, documentation files, files that are both, files that are neither
ContractPaths ==
    {<<"a", "p", "i", "/", "o", "p", "e", "n", "a", "p", "i", ".", "y", "a", "m", "l">>,
     <<"s", "r", "c", "/", "a", "p", "p", "/", "r", "o", "u", "t", "e", "s", "/", "o", "r", "d", "e", "r", "s", ".", "p", "y">>,
     <<"d", "o", "c", "s", "/", "r", "e", "f", "e", "r", "e", "n", "c", "e", "/", "o", "r", "d", "e", "r", "s", ".", "m", "d">>,
     <<"R", "E", "A", "D", "M", "E", ".", "m", "d">>,
     <<"d", "o", "c", "s", "/", "o", "p", "e", "n", "a", "p", "i", ".", "y", "a", "m", "l">>,
     <<"S", "D", "K", "/", "C", "l", "i", "e", "n", "t", ".", "t", "s">>,
     <<"s", "r", "c", "/", "s", "d", "k", ".", "p", "y">>}

DcInit ==
    /\ dc_files \in SeqsUpTo(ContractPaths, MaxFiles)
    /\ dc_report = [evaluated |-> FALSE]

\* report = evaluate_contract(files), with the patterns of the module
EvaluateContract ==
    /\ ~dc_report.evaluated
    /\ dc_report' = evaluate_contract(dc_files, INTERFACE_PATTERNS, DOC_PATTERNS)
    /\ UNCHANGED dc_files

InitContract == DcInit /\ AggIdle /\ hashOrder = <<>> /\ DdIdle /\ DriftIdle /\ SlaIdle
    /\ FmIdle /\ SqIdle /\ CcIdle /\ CaIdle /\ BgIdle /\ AlIdle /\ DodIdle /\ SmIdle
    /\ CliIdle

NextContract ==
    /\ EvaluateContract
    /\ UNCHANGED <<aggVars, ddVars, driftVars, slaVars, fmVars, sqVars, ccVars, caVars, bgVars
                   , alVars, dodVars, smVars, cliVars>>

SpecContract == InitContract /\ [][NextContract]_vars

IsInterfacePath(path) == \E k \in 1..Len(INTERFACE_PATTERNS) : Search(INTERFACE_PATTERNS[k], path)
IsDocPath(path) == \E k \in 1..Len(DOC_PATTERNS) : Search(DOC_PATTERNS[k], path)

\* C9: the report says blocked exactly when some changed path matches an
\* interface pattern and no changed path matches a doc pattern; a blocked list
\* extended by any path that matches a doc pattern is not blocked.
C9_BlockedIffInterfaceWithoutDocs ==
    dc_report.evaluated =>
        /\ dc_report.blocked <=>
              /\ \E i \in 1..Len(dc_files) : IsInterfacePath(dc_files[i])
              /\ \A i \in 1..Len(dc_files) : ~IsDocPath(dc_files[i])
        /\ dc_report.blocked =>
              \A path \in ContractPaths :
                  IsDocPath(path) =>
                      ~evaluate_contract(Append(dc_files, path),
                                         INTERFACE_PATTERNS, DOC_PATTERNS).blocked

\* the list of the test suite: an API description and a route, no documentation
C9_Witness ==
    /\ dc_report.evaluated
    /\ dc_report.blocked
    /\ dc_files = <<<<"a", "p", "i", "/", "o", "p", "e", "n", "a", "p", "i", ".", "y", "a", "m", "l">>,
                    <<"s", "r", "c", "/", "a", "p", "p", "/", "r", "o", "u", "t", "e", "s", "/", "o", "r", "d", "e", "r", "s", ".", "p", "y">>>>

\* a list that is not blocked only because a documentation path is in it
C9_WitnessNotBlocked ==
    /\ dc_report.evaluated
    /\ ~dc_report.blocked
    /\ dc_report.interface_changed # <<>>
    /\ dc_report.docs_changed # <<>>

----------------------------------------------------------------------------
(* scripts/check_api_sdk_drift.py *)

OPENAPI_PATTERNS == <<
    \* r"openapi.*\.(ya?ml|json)$"
    [start |-> FALSE, heads |-> {<<"o", "p", "e", "n", "a", "p", "i">>},
     tails |-> {<<".", "y", "a", "m", "l">>, <<".", "y", "m", "l">>, <<".", "j", "s", "o", "n">>}, end |-> TRUE],
    \* r"swagger.*\.(ya?ml|json)$"
    [start |-> FALSE, heads |-> {<<"s", "w", "a", "g", "g", "e", "r">>},
     tails |-> {<<".", "y", "a", "m", "l">>, <<".", "y", "m", "l">>, <<".", "j", "s", "o", "n">>}, end |-> TRUE],
    \* r"api-spec.*\.(ya?ml|json)$"
    [start |-> FALSE, heads |-> {<<"a", "p", "i", "-", "s", "p", "e", "c">>},
     tails |-> {<<".", "y", "a", "m", "l">>, <<".", "y", "m", "l">>, <<".", "j", "s", "o", "n">>}, end |-> TRUE]>>

SDK_PATTERNS == <<
    \* r"^sdk/"
    [start |-> TRUE, heads |-> {<<"s", "d", "k", "/">>},
     tails |-> {}, end |-> FALSE],
    \* r"^clients/"
    [start |-> TRUE, heads |-> {<<"c", "l", "i", "e", "n", "t", "s", "/">>},
     tails |-> {}, end |-> FALSE],
    \* r"generated/(sdk|client)"
    [start |-> FALSE, heads |-> {<<"g", "e", "n", "e", "r", "a", "t", "e", "d", "/", "s", "d", "k">>, <<"g", "e", "n", "e", "r", "a", "t", "e", "d", "/", "c", "l", "i", "e", "n", "t">>},
     tails |-> {}, end |-> FALSE]>>

REFERENCE_DOC_PATTERNS == <<
    \* r"^docs/reference/"
    [start |-> TRUE, heads |-> {<<"d", "o", "c", "s", "/", "r", "e", "f", "e", "r", "e", "n", "c", "e", "/">>},
     tails |-> {}, end |-> FALSE],
    \* r"^templates/api-reference\.md$"
    [start |-> TRUE, heads |-> {<<"t", "e", "m", "p", "l", "a", "t", "e", "s", "/", "a", "p", "i", "-", "r", "e", "f", "e", "r", "e", "n", "c", "e", ".", "m", "d">>},
     tails |-> {}, end |-> TRUE],
    \* r"^templates/sdk-reference\.md$"
    [start |-> TRUE, heads |-> {<<"t", "e", "m", "p", "l", "a", "t", "e", "s", "/", "s", "d", "k", "-", "r", "e", "f", "e", "r", "e", "n", "c", "e", ".", "m", "d">>},
     tails |-> {}, end |-> TRUE],
    \* r"^docs/how-to/.*api"
    [start |-> TRUE, heads |-> {<<"d", "o", "c", "s", "/", "h", "o", "w", "-", "t", "o", "/">>},
     tails |-> {<<"a", "p", "i">>}, end |-> FALSE]>>

\* [path for path in files if any(re.search(pattern, path, re.IGNORECASE) ...)]
_select(files, patterns) ==
    SelectSeq(files, LAMBDA path : \E k \in 1..Len(patterns) : Search(patterns[k], path))

\* an evaluator that overlooks SDK changes
DriftStatus_OpenApiOnly(openapi_changed, sdk_changed, reference_docs_changed) ==
    IF openapi_changed = <<>> THEN "ok"
    ELSE IF reference_docs_changed # <<>> THEN "ok"
    ELSE "drift"

\* the status of the three return statements of evaluate
DriftStatus(openapi_changed, sdk_changed, reference_docs_changed) ==
    IF openapi_changed = <<>> /\ sdk_changed = <<>> THEN "ok"
    ELSE IF reference_docs_changed # <<>> THEN "ok"
    ELSE "drift"

evaluate(files, openapi_patterns, sdk_patterns, reference_doc_patterns) ==
    LET openapi_changed == _select(files, openapi_patterns)
        sdk_changed == _select(files, sdk_patterns)
        reference_docs_changed == _select(files, reference_doc_patterns)
    IN  [evaluated |-> TRUE,
         status |-> DriftStatus(openapi_changed, sdk_changed, reference_docs_changed),
         openapi_changed |-> openapi_changed,
         sdk_changed |-> sdk_changed,
         reference_docs_changed |-> reference_docs_changed]

\* changed paths: API descriptions, SDK files, reference documentation, other documentation
DriftPaths ==
    {<<"a", "p", "i", "/", "o", "p", "e", "n", "a", "p", "i", ".", "y", "a", "m", "l">>,
     <<"s", "d", "k", "/", "c", "l", "i", "e", "n", "t", ".", "t", "s">>,
     <<"d", "o", "c", "s", "/", "r", "e", "f", "e", "r", "e", "n", "c", "e", "/", "o", "r", "d", "e", "r", "s", ".", "m", "d">>,
     <<"d", "o", "c", "s", "/", "h", "o", "w", "-", "t", "o", "/", "c", "a", "l", "l", "-", "a", "p", "i", ".", "m", "d">>,
     <<"d", "o", "c", "s", "/", "h", "o", "w", "-", "t", "o", "/", "i", "n", "t", "r", "o", ".", "m", "d">>,
     <<"s", "r", "c", "/", "g", "e", "n", "e", "r", "a", "t", "e", "d", "/", "c", "l", "i", "e", "n", "t", "/", "x", ".", "p", "y">>,
     <<"d", "o", "c", "s", "/", "r", "e", "f", "e", "r", "e", "n", "c", "e", "/", "S", "w", "a", "g", "g", "e", "r", ".", "J", "S", "O", "N">>}

DriftInit ==
    /\ drift_files \in SeqsUpTo(DriftPaths, MaxFiles)
    /\ drift_report = [evaluated |-> FALSE]

\* report = evaluate(files), with the patterns of the module
EvaluateDrift ==
    /\ ~drift_report.evaluated
    /\ drift_report' = evaluate(drift_files, OPENAPI_PATTERNS, SDK_PATTERNS,
                                REFERENCE_DOC_PATTERNS)
    /\ UNCHANGED drift_files

InitDrift == DriftInit /\ AggIdle /\ hashOrder = <<>> /\ DdIdle /\ DcIdle /\ SlaIdle
    /\ FmIdle /\ SqIdle /\ CcIdle /\ CaIdle /\ BgIdle /\ AlIdle /\ DodIdle /\ SmIdle
    /\ CliIdle

NextDrift ==
    /\ EvaluateDrift
    /\ UNCHANGED <<aggVars, ddVars, dcVars, slaVars, fmVars, sqVars, ccVars, caVars, bgVars
                   , alVars, dodVars, smVars, cliVars>>

SpecDrift == InitDrift /\ [][NextDrift]_vars

MatchesSome(path, patterns) == \E k \in 1..Len(patterns) : Search(patterns[k], path)

\* C10: the status is drift exactly when some changed path matches an OpenAPI
\* or SDK pattern and no changed path matches a reference-doc pattern; in
\* every other case it is ok.
C10_DriftIffApiWithoutReferenceDocs ==
    drift_report.evaluated =>
        LET api == \E i \in 1..Len(drift_files) :
                       \/ MatchesSome(drift_files[i], OPENAPI_PATTERNS)
                       \/ MatchesSome(drift_files[i], SDK_PATTERNS)
            ref == \E i \in 1..Len(drift_files) :
                       MatchesSome(drift_files[i], REFERENCE_DOC_PATTERNS)
        IN  /\ drift_report.status = "drift" <=> (api /\ ~ref)
            /\ drift_report.status # "drift" => drift_report.status = "ok"

\* the list of the test suite: an API description and an SDK file, no reference documentation
C10_Witness ==
    /\ drift_report.evaluated
    /\ drift_report.status = "drift"
    /\ drift_files = <<<<"a", "p", "i", "/", "o", "p", "e", "n", "a", "p", "i", ".", "y", "a", "m", "l">>,
                       <<"s", "d", "k", "/", "c", "l", "i", "e", "n", "t", ".", "t", "s">>>>

\* an SDK change that is ok only because reference documentation changed with it
C10_WitnessOk ==
    /\ drift_report.evaluated
    /\ drift_report.status = "ok"
    /\ drift_report.sdk_changed # <<>>
    /\ drift_report.openapi_changed = <<>>
    /\ drift_report.reference_docs_changed # <<>>

----------------------------------------------------------------------------
(* The KPI SLA evaluator (scripts/evaluate_kpi_sla.py)                      *)
(*                                                                         *)
(* Numbers are held in tenths, so that 15.0 is 150 and the integer 80 is   *)
(* 800: stale_pct is written by the KPI wall with one decimal, the other   *)
(* fields and thresholds are integers.  A dict maps each key to            *)
(* [has |-> FALSE] or to [has |-> TRUE, v |-> value].                      *)

Num(whole, tenth) == whole * 10 + tenth

Missing == [has |-> FALSE]

Value(x) == [has |-> TRUE, v |-> x]

\* d.get(key, default)
Get(d, key, default) == IF d[key].has THEN d[key].v ELSE default

\* int(x): truncation toward zero
IntOf(x) == IF x >= 0 THEN (x \div 10) * 10 ELSE 0 - (((0 - x) \div 10) * 10)

\* float(x)
FloatOf(x) == x

\* f"{n}" of an int n >= 0
FormatInt(x) == DecStr(x \div 10)

\* f"{x:.1f}" of a float x >= 0 that has one decimal
Format1f(x) == DecStr(x \div 10) \o <<".", Digit(x % 10)>>

DEFAULT_THRESHOLDS ==
    [min_quality_score |-> Num(80, 0), max_stale_pct |-> Num(15, 0),
     max_high_priority_gaps |-> Num(8, 0), max_quality_score_drop |-> Num(5, 0)]

\* a gate that also fails a score equal to the minimum
QualityBreached_AtMost(quality, thresholds) ==
    quality <= IntOf(thresholds.min_quality_score)

\* quality < int(thresholds["min_quality_score"])
QualityBreached(quality, thresholds) ==
    quality < IntOf(thresholds.min_quality_score)

QualityPrefix == "Quality score breach: "
StalePrefix == "Stale docs breach: "
HighGapsPrefix == "High-priority gap breach: "
TrendPrefix == "Quality trend breach: dropped by "

NoPrevious == [given |-> FALSE]

Previous(record) == [given |-> TRUE, record |-> record]

evaluate_sla(current, previous, thresholds) ==
    LET quality == IntOf(Get(current, "quality_score", 0))
        stale_pct == FloatOf(Get(current, "stale_pct", 0))
        high_gaps == IntOf(Get(current, "gap_high", 0))
        b1 == IF QualityBreached(quality, thresholds)
              THEN << <<QualityPrefix>> \o FormatInt(quality) \o <<" < ">>
                      \o FormatInt(IntOf(thresholds.min_quality_score)) \o <<".">> >>
              ELSE <<>>
        b2 == IF stale_pct > FloatOf(thresholds.max_stale_pct)
              THEN << <<StalePrefix>> \o Format1f(stale_pct) \o <<"% > ">>
                      \o Format1f(FloatOf(thresholds.max_stale_pct)) \o <<"%.">> >>
              ELSE <<>>
        b3 == IF high_gaps > IntOf(thresholds.max_high_priority_gaps)
              THEN << <<HighGapsPrefix>> \o FormatInt(high_gaps) \o <<" > ">>
                      \o FormatInt(IntOf(thresholds.max_high_priority_gaps)) \o <<".">> >>
              ELSE <<>>
        previous_quality ==
            IF previous.given THEN IntOf(Get(previous.record, "quality_score", quality))
            ELSE quality
        drop == previous_quality - quality
        b4 == IF previous.given /\ drop > IntOf(thresholds.max_quality_score_drop)
              THEN << <<TrendPrefix>> \o FormatInt(drop) \o <<" points (max allowed ">>
                      \o FormatInt(IntOf(thresholds.max_quality_score_drop)) \o <<").">> >>
              ELSE <<>>
        breaches == b1 \o b2 \o b3 \o b4
        trend_notes ==
            IF previous.given
            THEN << <<"Quality score trend: previous ">> \o FormatInt(previous_quality)
                    \o <<", current ">> \o FormatInt(quality) \o <<".">> >>
            ELSE <<>>
    IN  [evaluated |-> TRUE,
         status |-> IF breaches # <<>> THEN "breach" ELSE "ok",
         summary |-> IF breaches # <<>> THEN "SLA thresholds breached."
                     ELSE "KPI SLA check passed.",
         breaches |-> breaches,
         trend_notes |-> trend_notes,
         metrics |-> [quality_score |-> quality, stale_pct |-> stale_pct,
                      high_priority_gaps |-> high_gaps]]

\* KPI records as generate_kpi_wall writes them, and records lacking a key
KpiRecords ==
    [quality_score : {Missing, Value(Num(79, 0)), Value(Num(80, 0))},
     stale_pct : {Value(Num(15, 0)), Value(Num(17, 0))},
     gap_high : {Value(Num(8, 0)), Value(Num(9, 0))}]

PreviousRecords ==
    [quality_score : {Missing, Value(Num(85, 0)), Value(Num(88, 0))},
     stale_pct : {Value(Num(12, 0))},
     gap_high : {Value(Num(5, 0))}]

\* the defaults, and the lenient thresholds of a policy pack
ThresholdSets ==
    {DEFAULT_THRESHOLDS,
     [min_quality_score |-> Num(0, 0), max_stale_pct |-> Num(100, 0),
      max_high_priority_gaps |-> Num(100, 0), max_quality_score_drop |-> Num(100, 0)]}

SlaInit ==
    /\ sla_thresholds \in ThresholdSets
    /\ sla_current = <<>>
    /\ sla_previous = <<>>
    /\ sla_report = [evaluated |-> FALSE]
    /\ sla_before = [evaluated |-> FALSE]

\* report = evaluate(current, previous, thresholds)
EvaluateSla ==
    \E current \in KpiRecords,
       previous \in {NoPrevious} \cup {Previous(r) : r \in PreviousRecords} :
        /\ sla_current' = current
        /\ sla_previous' = previous
        /\ sla_report' = evaluate_sla(current, previous, sla_thresholds)
        /\ sla_before' = [evaluated |-> sla_report.evaluated, report |-> sla_report,
                          current |-> sla_current, previous |-> sla_previous]
        /\ UNCHANGED sla_thresholds

InitSla == SlaInit /\ AggIdle /\ hashOrder = <<>> /\ DdIdle /\ DcIdle /\ DriftIdle
    /\ FmIdle /\ SqIdle /\ CcIdle /\ CaIdle /\ BgIdle /\ AlIdle /\ DodIdle /\ SmIdle
    /\ CliIdle

NextSla ==
    /\ EvaluateSla
    /\ UNCHANGED <<aggVars, ddVars, dcVars, driftVars, fmVars, sqVars, ccVars, caVars, bgVars
                   , alVars, dodVars, smVars, cliVars>>

SpecSla == InitSla /\ [][NextSla]_vars

\* the conditions a record violates, compared on the values of the record
Violated(current, previous, thresholds) ==
    {c \in {QualityPrefix, StalePrefix, HighGapsPrefix, TrendPrefix} :
        \/ c = QualityPrefix
           /\ Get(current, "quality_score", 0) < thresholds.min_quality_score
        \/ c = StalePrefix
           /\ Get(current, "stale_pct", 0) > thresholds.max_stale_pct
        \/ c = HighGapsPrefix
           /\ Get(current, "gap_high", 0) > thresholds.max_high_priority_gaps
        \/ c = TrendPrefix
           /\ previous.given
           /\ Get(previous.record, "quality_score", Get(current, "quality_score", 0))
                - Get(current, "quality_score", 0) > thresholds.max_quality_score_drop}

EntriesOf(breaches, prefix) == {i \in 1..Len(breaches) : breaches[i][1] = prefix}

\* C11: the breach list has exactly one entry per violated condition (score
\* under the minimum, stale percentage over the maximum, high-priority gaps
\* over the maximum and, with a previous record, a drop over the maximum), so
\* it is no shorter than the list of an evaluation that violated a subset of
\* the conditions; the status is breach exactly when the list is non-empty.
C11_OneBreachPerViolatedCondition ==
    sla_report.evaluated =>
        LET conds == Violated(sla_current, sla_previous, sla_thresholds)
        IN  /\ \A c \in {QualityPrefix, StalePrefix, HighGapsPrefix, TrendPrefix} :
                  Cardinality(EntriesOf(sla_report.breaches, c)) =
                      IF c \in conds THEN 1 ELSE 0
            /\ Len(sla_report.breaches) = Cardinality(conds)
            /\ sla_report.status = "breach" <=> sla_report.breaches # <<>>
            /\ sla_report.status # "breach" => sla_report.status = "ok"
            /\ (/\ sla_before.evaluated
                /\ Violated(sla_before.current, sla_before.previous, sla_thresholds)
                      \subseteq conds)
                  => Len(sla_before.report.breaches) <= Len(sla_report.breaches)

\* the record of the end-to-end test violates all four conditions, after an
\* evaluation of the same record without a previous one
C11_Witness ==
    /\ sla_report.evaluated
    /\ sla_before.evaluated
    /\ sla_thresholds = DEFAULT_THRESHOLDS
    /\ sla_current = [quality_score |-> Value(Num(79, 0)), stale_pct |-> Value(Num(17, 0)),
                      gap_high |-> Value(Num(9, 0))]
    /\ sla_previous.given
    /\ ~sla_before.previous.given
    /\ sla_before.current = sla_current
    /\ Len(sla_before.report.breaches) = 3
    /\ Len(sla_report.breaches) = 4
    /\ sla_report.status = "breach"

----------------------------------------------------------------------------
(* The frontmatter validator (scripts/validate_frontmatter.py)              *)
(*                                                                         *)
(* A YAML value is a record with a kind: str and date (text, one character *)
(* per run, except that the run "---" stands for three hyphens), int (n),  *)
(* bool (b), null, list (items) and dict (pairs, a sequence of             *)
(* [name, value], a repeated name keeping its last value).  The text of a  *)
(* file is a sequence of tokens: the three hyphens, a line end, the        *)
(* `name:` that opens a mapping entry, a plain scalar or flow collection,  *)
(* a piece YAML cannot parse, and body text.                               *)

StrValue(text) == [kind |-> "str", text |-> text]
IntValue(n) == [kind |-> "int", n |-> n]
NullValue == [kind |-> "null"]
ListValue(items) == [kind |-> "list", items |-> items]
DictValue(pairs) == [kind |-> "dict", pairs |-> pairs]
Pair(name, value) == [name |-> name, value |-> value]

Hyphens == "---"

\* len(s)
RECURSIVE StrLen(_)
StrLen(text) ==
    IF text = <<>> THEN 0
    ELSE (IF Head(text) = Hyphens THEN 3 ELSE 1) + StrLen(Tail(text))

\* field in d
HasKey(pairs, name) == \E i \in 1..Len(pairs) : pairs[i].name = name

\* d[field]
Lookup(pairs, name) ==
    pairs[CHOOSE i \in 1..Len(pairs) :
              /\ pairs[i].name = name
              /\ \A j \in (i + 1)..Len(pairs) : pairs[j].name # name].value

\* str(value)
RECURSIVE Repr(_)
Repr(value) ==
    CASE value.kind = "str" -> value.text
      [] value.kind = "date" -> value.text
      [] value.kind = "int" -> DecStr(value.n)
      [] value.kind = "bool" -> IF value.b THEN <<"True">> ELSE <<"False">>
      [] value.kind = "null" -> <<"None">>
      [] value.kind = "list" ->
            <<"[">> \o Concat([i \in 1..Len(value.items) |->
                          (IF i > 1 THEN <<", ">> ELSE <<>>) \o <<"'">>
                          \o Repr(value.items[i]) \o <<"'">>]) \o <<"]">>
      [] value.kind = "dict" ->
            <<"{">> \o Concat([i \in 1..Len(value.pairs) |->
                          (IF i > 1 THEN <<", ">> ELSE <<>>) \o <<"'", value.pairs[i].name, "': '">>
                          \o Repr(value.pairs[i].value) \o <<"'">>]) \o <<"}">>

Delim == [t |-> "delim"]
NL == [t |-> "nl"]
Key(name) == [t |-> "key", name |-> name]
Scalar(value) == [t |-> "value", v |-> value]
Broken == [t |-> "broken"]
Body == [t |-> "text"]

\* the positions of the three hyphens in a text
DelimPositions(text) == {i \in 1..Len(text) : text[i].t = "delim"}

Min(S) == CHOOSE x \in S : \A y \in S : x <= y

\* text.split("---", 2): the pieces around the first two occurrences
Split2(text) ==
    LET ps == DelimPositions(text)
    IN  IF ps = {} THEN <<text>>
        ELSE LET p1 == Min(ps)
                 rest == ps \ {p1}
             IN  IF rest = {} THEN <<SubSeq(text, 1, p1 - 1), SubSeq(text, p1 + 1, Len(text))>>
                 ELSE LET p2 == Min(rest)
                      IN  <<SubSeq(text, 1, p1 - 1), SubSeq(text, p1 + 1, p2 - 1),
                            SubSeq(text, p2 + 1, Len(text))>>

\* the lines of a YAML document
RECURSIVE SplitLines(_)
SplitLines(tokens) ==
    LET ends == {i \in 1..Len(tokens) : tokens[i].t = "nl"}
    IN  IF ends = {} THEN <<tokens>>
        ELSE <<SubSeq(tokens, 1, Min(ends) - 1)>>
             \o SplitLines(SubSeq(tokens, Min(ends) + 1, Len(tokens)))

\* a plain scalar loses the blanks around it
RECURSIVE StripLeft(_)
StripLeft(text) ==
    IF text # <<>> /\ Head(text) = " " THEN StripLeft(Tail(text)) ELSE text

RECURSIVE StripRight(_)
StripRight(text) ==
    IF text # <<>> /\ text[Len(text)] = " "
    THEN StripRight(SubSeq(text, 1, Len(text) - 1)) ELSE text

Strip(value) ==
    IF value.kind = "str" THEN StrValue(StripRight(StripLeft(value.text))) ELSE value

\* one line of a block mapping: blank, `name:`, `name: value`, a bare scalar,
\* or something that is not YAML
ParseLine(line) ==
    CASE line = <<>> -> [is |-> "blank"]
      [] Len(line) = 1 /\ line[1].t = "key" ->
            [is |-> "pair", pair |-> Pair(line[1].name, NullValue)]
      [] Len(line) = 2 /\ line[1].t = "key" /\ line[2].t = "value" ->
            [is |-> "pair", pair |-> Pair(line[1].name, Strip(line[2].v))]
      [] Len(line) = 1 /\ line[1].t \in {"value", "text"} -> [is |-> "scalar"]
      [] OTHER -> [is |-> "error"]

\* yaml.safe_load(text): a dict, another value, or YAMLError
yaml_safe_load(tokens) ==
    LET lines == SplitLines(tokens)
        parsed == [i \in 1..Len(lines) |-> ParseLine(lines[i])]
        kinds == {parsed[i].is : i \in 1..Len(parsed)} \ {"blank"}
        pairLines == SelectSeq(parsed, LAMBDA p : p.is = "pair")
    IN  CASE "error" \in kinds -> [raised |-> TRUE]
          [] kinds = {} -> [raised |-> FALSE, value |-> NullValue]
          [] kinds = {"pair"} ->
                [raised |-> FALSE,
                 value |-> DictValue([i \in 1..Len(pairLines) |-> pairLines[i].pair])]
          [] kinds = {"scalar"} /\ Cardinality({i \in 1..Len(parsed) : parsed[i].is = "scalar"}) = 1 ->
                [raised |-> FALSE, value |-> StrValue(<<"x">>)]
          [] OTHER -> [raised |-> TRUE]

None == [kind |-> "None"]

\* extract_frontmatter(text): the mapping, or None
extract_frontmatter(text) ==
    IF ~(text # <<>> /\ text[1].t = "delim") THEN None
    ELSE LET parts == Split2(text)
         IN  IF Len(parts) < 3 THEN None
             ELSE LET document == yaml_safe_load(parts[2])
                  IN  IF document.raised THEN None
                      ELSE IF document.value.kind = "dict" THEN document.value ELSE None

\* _normalize_string_candidate(value)
_normalize_string_candidate(value) ==
    CASE value.kind = "str" -> value.text
      [] value.kind = "date" -> Prefix(value.text, 10)
      [] OTHER -> Repr(value)

_is_type(value, expected_type) ==
    CASE expected_type = "string" -> value.kind \in {"str", "date"}
      [] expected_type = "integer" -> value.kind = "int"
      [] expected_type = "number" -> value.kind \in {"int", "float"}
      [] expected_type = "boolean" -> value.kind = "bool"
      [] expected_type = "array" -> value.kind = "list"
      [] expected_type = "object" -> value.kind = "dict"
      [] expected_type = "null" -> value.kind = "null"
      [] OTHER -> TRUE

\* a schema type is one name or a list of names
TypeName(name) == [single |-> TRUE, name |-> name]
TypeNames(names) == [single |-> FALSE, names |-> names]

_type_matches(value, expected_type) ==
    IF expected_type.single THEN _is_type(value, expected_type.name)
    ELSE \E i \in 1..Len(expected_type.names) : _is_type(value, expected_type.names[i])

TypeRepr(expected_type) ==
    IF expected_type.single THEN <<expected_type.name>>
    ELSE <<"[">> \o Concat([i \in 1..Len(expected_type.names) |->
                       (IF i > 1 THEN <<", ">> ELSE <<>>)
                       \o <<"'", expected_type.names[i], "'">>]) \o <<"]">>

\* a pattern of the form ^[class]+$, with its source text
ClassPattern(source, class) == [source |-> source, class |-> class]

\* re.match(pattern, s) is not None
re_match(pattern, s) == s # <<>> /\ \A i \in 1..Len(s) : s[i] \in pattern.class

\* len(normalized) < min_length
TooShort(normalized, min_length) == StrLen(normalized) < min_length

\* a lookup that takes an entry without a value for an absent one
Present_NotNull(pairs, field) == HasKey(pairs, field) /\ Lookup(pairs, field).kind # "null"

\* field in frontmatter
Present(pairs, field) == HasKey(pairs, field)

RECURSIVE _validate_node(_, _, _)
_validate_node(value, schema, location) ==
    IF "type" \in DOMAIN schema /\ ~_type_matches(value, schema.type)
    THEN <<location \o <<": must be of type '">> \o TypeRepr(schema.type) \o <<"'">>>>
    ELSE
    LET enumErrors ==
            IF "enum" \in DOMAIN schema /\ value \notin Range(schema.enum)
            THEN <<location \o <<": invalid value '">> \o Repr(value) \o <<"'. Allowed: ">>
                   \o Repr(ListValue(schema.enum))>>
            ELSE <<>>
        normalized == _normalize_string_candidate(value)
        stringErrors ==
            IF _type_matches(value, TypeName("string"))
            THEN (IF "minLength" \in DOMAIN schema /\ TooShort(normalized, schema.minLength)
                  THEN <<location \o <<": too short (">> \o DecStr(StrLen(normalized))
                         \o <<" < ">> \o DecStr(schema.minLength) \o <<")">>>>
                  ELSE <<>>)
                 \o
                 (IF "maxLength" \in DOMAIN schema /\ StrLen(normalized) > schema.maxLength
                  THEN <<location \o <<": too long (">> \o DecStr(StrLen(normalized))
                         \o <<" > ">> \o DecStr(schema.maxLength) \o <<")">>>>
                  ELSE <<>>)
                 \o
                 (IF "pattern" \in DOMAIN schema /\ ~re_match(schema.pattern, normalized)
                  THEN <<location \o <<": does not match pattern '", schema.pattern.source, "'">>>>
                  ELSE <<>>)
            ELSE <<>>
        arrayErrors ==
            IF _type_matches(value, TypeName("array"))
            THEN (IF "minItems" \in DOMAIN schema /\ Len(value.items) < schema.minItems
                  THEN <<location \o <<": too few items (">> \o DecStr(Len(value.items))
                         \o <<" < ">> \o DecStr(schema.minItems) \o <<")">>>>
                  ELSE <<>>)
                 \o
                 (IF "maxItems" \in DOMAIN schema /\ Len(value.items) > schema.maxItems
                  THEN <<location \o <<": too many items (">> \o DecStr(Len(value.items))
                         \o <<" > ">> \o DecStr(schema.maxItems) \o <<")">>>>
                  ELSE <<>>)
                 \o
                 (IF "uniqueItems" \in DOMAIN schema /\ schema.uniqueItems
                     /\ Len(value.items) #
                          Cardinality({Repr(value.items[i]) : i \in 1..Len(value.items)})
                  THEN <<location \o <<": must contain unique items">>>>
                  ELSE <<>>)
                 \o
                 (IF "items" \in DOMAIN schema
                  THEN Concat([i \in 1..Len(value.items) |->
                           _validate_node(value.items[i], schema.items,
                                          location \o <<"[">> \o DecStr(i - 1) \o <<"]">>)])
                  ELSE <<>>)
            ELSE <<>>
        objectErrors ==
            IF _type_matches(value, TypeName("object"))
            THEN LET required == IF "required" \in DOMAIN schema THEN schema.required ELSE <<>>
                     properties == IF "properties" \in DOMAIN schema THEN schema.properties
                                   ELSE <<>>
                 IN  Concat([i \in 1..Len(required) |->
                         IF ~HasKey(value.pairs, required[i])
                         THEN <<location \o <<".", required[i], ": missing required field">>>>
                         ELSE <<>>])
                     \o
                     Concat([i \in 1..Len(properties) |->
                         IF HasKey(value.pairs, properties[i].name)
                         THEN _validate_node(Lookup(value.pairs, properties[i].name),
                                             properties[i].rules,
                                             location \o <<".", properties[i].name>>)
                         ELSE <<>>])
            ELSE <<>>
    IN  enumErrors \o stringErrors \o arrayErrors \o objectErrors

Property(name, rules) == [name |-> name, rules |-> rules]

\* f"{filepath}: missing required field '{field}'"
MissingMessage(filepath, field) == <<filepath, ": missing required field '", field, "'">>

\* f"{filepath}: missing or invalid frontmatter"
NoFrontmatterMessage(filepath) == <<filepath, ": missing or invalid frontmatter">>

\* the checks of validate_file on an extracted mapping
ValidateFields(filepath, pairs, schema) ==
    Concat([i \in 1..Len(schema.required) |->
        IF ~Present(pairs, schema.required[i])
        THEN <<MissingMessage(filepath, schema.required[i])>>
        ELSE <<>>])
    \o
    Concat([i \in 1..Len(schema.properties) |->
        IF Present(pairs, schema.properties[i].name)
        THEN _validate_node(Lookup(pairs, schema.properties[i].name),
                            schema.properties[i].rules,
                            <<filepath, ":", schema.properties[i].name>>)
        ELSE <<>>])

validate_file(filepath, text, schema) ==
    LET frontmatter == extract_frontmatter(text)
    IN  IF frontmatter = None THEN <<NoFrontmatterMessage(filepath)>>
        ELSE ValidateFields(filepath, frontmatter.pairs, schema)

\* the schemas: required fields, and rules of every kind the validator knows
DocsSchema ==
    [required |-> <<"title", "description", "content_type">>,
     properties |->
        <<Property("title", [type |-> TypeName("string"), minLength |-> 3, maxLength |-> 12]),
          Property("description", [type |-> TypeName("string"), minLength |-> 2, maxLength |-> 6]),
          Property("content_type",
                   [type |-> TypeName("string"),
                    enum |-> <<StrValue(<<"h", "o", "w", "-", "t", "o">>),
                               StrValue(<<"r", "e", "f">>)>>]),
          Property("tags", [type |-> TypeName("array"), items |-> [type |-> TypeName("string")],
                            uniqueItems |-> TRUE, maxItems |-> 2])>>]

LooseSchema ==
    [required |-> <<"title", "tags">>,
     properties |->
        <<Property("title", [minLength |-> 3]),
          Property("content_type",
                   [pattern |-> ClassPattern("^[a-z-]+$", {"h", "o", "w", "-", "t", "r", "e", "f"})]),
          Property("tags", [type |-> TypeName("array"), minItems |-> 1]),
          Property("owner",
                   [type |-> TypeName("object"), required |-> <<"team">>,
                    properties |-> <<Property("team",
                                        [type |-> TypeNames(<<"string", "null">>)])>>])>>]

Schemas == {DocsSchema, LooseSchema}

FilePath == "docs/guide.md"

\* what an author may write for each field; Absent leaves the line out
Absent == [kind |-> "absent"]

FieldChoices(field) ==
    CASE field = "title" ->
            {Absent, StrValue(<<"H", "i">>), StrValue(<<"S", "e", "t", "u", "p">>),
             StrValue(<<"W", "e", "b", " ", Hyphens, " ", "h", "o", "o", "k">>),
             IntValue(123)}
      [] field = "description" ->
            {Absent, NullValue, StrValue(<<"G", "u", "i", "d", "e">>),
             StrValue(<<"L", "e", "n", "g", "t", "h", "y">>)}
      [] field = "content_type" ->
            {Absent, StrValue(<<"h", "o", "w", "-", "t", "o">>), StrValue(<<"B", "l", "o", "g">>)}
      [] field = "tags" ->
            {Absent, ListValue(<<StrValue(<<"a">>), StrValue(<<"b">>)>>),
             ListValue(<<StrValue(<<"a">>), StrValue(<<"a">>)>>)}
      [] field = "owner" ->
            {Absent, DictValue(<<Pair("team", StrValue(<<"d", "o", "c", "s">>))>>),
             DictValue(<<Pair("name", StrValue(<<"x">>))>>)}

FieldOrders ==
    {<<"title", "description", "content_type", "tags", "owner">>,
     <<"owner", "tags", "content_type", "description", "title">>}

\* the lines of a block: the chosen fields in the chosen order
Lines(order, choice) ==
    LET written == SelectSeq(order, LAMBDA f : choice[f] # Absent)
    IN  [i \in 1..Len(written) |-> Pair(written[i], choice[written[i]])]

\* the tokens of a string that may hold three hyphens in a row
RECURSIVE StrTokens(_)
StrTokens(text) ==
    LET hs == {i \in 1..Len(text) : text[i] = Hyphens}
    IN  IF hs = {} THEN (IF text = <<>> THEN <<>> ELSE <<Scalar(StrValue(text))>>)
        ELSE (IF Min(hs) > 1 THEN <<Scalar(StrValue(SubSeq(text, 1, Min(hs) - 1)))>> ELSE <<>>)
             \o <<Delim>> \o StrTokens(SubSeq(text, Min(hs) + 1, Len(text)))

ValueTokens(value) ==
    CASE value.kind = "null" -> <<>>
      [] value.kind = "str" -> StrTokens(value.text)
      [] OTHER -> <<Scalar(value)>>

Render(lines) ==
    Concat([i \in 1..Len(lines) |-> <<Key(lines[i].name)>> \o ValueTokens(lines[i].value) \o <<NL>>])

\* the text of a file of each shape
FileText(doc) ==
    CASE doc.shape = "ok" -> <<Delim, NL>> \o Render(doc.lines) \o <<Delim, NL, Body>>
      [] doc.shape = "none" -> <<Body, NL>>
      [] doc.shape = "late" -> <<Body, NL, Delim, NL>> \o Render(doc.lines) \o <<Delim, NL, Body>>
      [] doc.shape = "unclosed" -> <<Delim, NL>> \o Render(doc.lines) \o <<Body>>
      [] doc.shape = "broken" ->
            <<Delim, NL>> \o Render(doc.lines) \o <<Key("x"), Broken, NL, Delim, NL, Body>>
      [] doc.shape = "scalar" -> <<Delim, NL, Scalar(StrValue(<<"x">>)), NL, Delim, NL, Body>>

Docs ==
    LET fields == {"title", "description", "content_type", "tags", "owner"}
        choices == {c \in [fields -> UNION {FieldChoices(f) : f \in fields}] :
                       \A f \in fields : c[f] \in FieldChoices(f)}
        sample == [f \in fields |->
                      CASE f = "title" -> StrValue(<<"S", "e", "t", "u", "p">>)
                        [] f = "content_type" -> StrValue(<<"h", "o", "w", "-", "t", "o">>)
                        [] OTHER -> Absent]
        hyphened == [sample EXCEPT !["title"] =
                        StrValue(<<"W", "e", "b", " ", Hyphens, " ", "h", "o", "o", "k">>)]
        forward == <<"title", "description", "content_type", "tags", "owner">>
    IN  {[shape |-> "ok", lines |-> Lines(o, c)] : o \in FieldOrders, c \in choices}
        \cup {[shape |-> s, lines |-> Lines(forward, c)] :
                 s \in {"late", "unclosed", "broken"}, c \in {sample, hyphened}}
        \cup {[shape |-> s, lines |-> <<>>] : s \in {"none", "scalar"}}

FmInit ==
    /\ fm_schema \in Schemas
    /\ fm_doc \in Docs
    /\ fm_text = FileText(fm_doc)
    /\ fm_errors = [returned |-> FALSE]

\* errors = validate_file(filepath, schema)
ValidateFile ==
    /\ ~fm_errors.returned
    /\ fm_errors' = [returned |-> TRUE, errors |-> validate_file(FilePath, fm_text, fm_schema)]
    /\ UNCHANGED <<fm_schema, fm_doc, fm_text>>

InitFrontmatter == FmInit /\ AggIdle /\ hashOrder = <<>> /\ DdIdle /\ DcIdle
    /\ DriftIdle /\ SlaIdle /\ SqIdle /\ CcIdle /\ CaIdle /\ BgIdle /\ AlIdle /\ DodIdle
    /\ SmIdle /\ CliIdle

NextFrontmatter ==
    /\ ValidateFile
    /\ UNCHANGED <<aggVars, ddVars, dcVars, driftVars, slaVars, sqVars, ccVars, caVars, bgVars
                   , alVars, dodVars, smVars, cliVars>>

SpecFrontmatter == InitFrontmatter /\ [][NextFrontmatter]_vars

\* the required fields for which the file has no line
LackedFields == {f \in Range(fm_schema.required) : ~HasKey(fm_doc.lines, f)}

\* some value of the block holds three hyphens in a row
HyphensInValue ==
    \E i \in 1..Len(fm_doc.lines) :
        /\ fm_doc.lines[i].value.kind = "str"
        /\ Hyphens \in Range(fm_doc.lines[i].value.text)

Naming(field) ==
    {i \in 1..Len(fm_errors.errors) : fm_errors.errors[i] = MissingMessage(FilePath, field)}

\* C12 as stated: for every required field the file lacks, exactly one of the
\* returned errors names that field, whatever else the file contains.
C12_MissingFieldNamedOnce ==
    fm_errors.returned => \A f \in LackedFields : Cardinality(Naming(f)) = 1

\* C12: when the text between the first two occurrences of the three hyphens
\* is a YAML mapping (as it is for every file that opens with a closed,
\* non-empty mapping block), each required field the file lacks is named by
\* exactly one error and by no error about its value, and a required field of
\* the mapping is named by none; when the file does not
\* open with the hyphens, has no second occurrence, or the text between is
\* not a mapping, the only error is "missing or invalid frontmatter".
C12_MissingFieldNamedOnceInMapping ==
    fm_errors.returned =>
        LET frontmatter == extract_frontmatter(fm_text)
        IN  /\ (fm_doc.shape = "ok" /\ fm_doc.lines # <<>>) => frontmatter # None
            /\ fm_doc.shape \in {"none", "late", "scalar"} => frontmatter = None
            /\ (fm_doc.shape \in {"broken", "unclosed"} /\ ~HyphensInValue)
                  => frontmatter = None
            /\ frontmatter = None =>
                  fm_errors.errors = <<NoFrontmatterMessage(FilePath)>>
            /\ frontmatter # None =>
                  \A f \in LackedFields :
                      /\ Cardinality(Naming(f)) = 1
                      /\ \A i \in 1..Len(fm_errors.errors) :
                            Prefix(fm_errors.errors[i], 3) # <<FilePath, ":", f>>
            /\ frontmatter # None =>
                  \A f \in Range(fm_schema.required) :
                      HasKey(frontmatter.pairs, f) => Naming(f) = {}

\* a file with title and content_type and no description: one error names
\* description, next to the error about the title being too short
C12_Witness ==
    /\ fm_errors.returned
    /\ fm_schema = DocsSchema
    /\ fm_doc.shape = "ok"
    /\ LackedFields = {"description"}
    /\ Len(fm_errors.errors) = 2
    /\ Cardinality(Naming("description")) = 1

\* a file without a frontmatter block: one error, naming no field
C12_WitnessNoFrontmatter ==
    /\ fm_errors.returned
    /\ fm_doc.shape = "none"
    /\ LackedFields # {}
    /\ fm_errors.errors = <<NoFrontmatterMessage(FilePath)>>

\* the frontmatter the author wrote satisfies the whole schema
FrontmatterValid == ValidateFields(FilePath, fm_doc.lines, fm_schema) = <<>>

\* C13: validate_file returns zero errors for every file whose frontmatter
\* has all required fields and satisfies the constraints of the schema;
\* stated for frontmatter that satisfies every constraint the validator
\* knows, the enum and length constraints among them.
C13_ZeroErrorsWhenValid ==
    (fm_errors.returned /\ fm_doc.shape = "ok" /\ fm_doc.lines # <<>> /\ FrontmatterValid)
        => fm_errors.errors = <<>>

\* the enum and length constraints alone do not yield zero errors either
C13_ZeroErrorsWhenEnumAndLengthHold ==
    (/\ fm_errors.returned
     /\ fm_doc.shape = "ok"
     /\ LackedFields = {}
     /\ \A i \in 1..Len(fm_schema.properties) :
           LET name == fm_schema.properties[i].name
               rules == fm_schema.properties[i].rules
           IN  HasKey(fm_doc.lines, name) =>
                  LET value == Lookup(fm_doc.lines, name)
                  IN  /\ "enum" \in DOMAIN rules => value \in Range(rules.enum)
                      /\ ("minLength" \in DOMAIN rules /\ value.kind = "str")
                            => StrLen(value.text) >= rules.minLength
                      /\ ("maxLength" \in DOMAIN rules /\ value.kind = "str")
                            => StrLen(value.text) <= rules.maxLength)
        => fm_errors.errors = <<>>

\* a valid file is accepted when none of its values holds three hyphens
C13_ValidWithoutHyphensAccepted ==
    (/\ fm_errors.returned
     /\ fm_doc.shape = "ok"
     /\ fm_doc.lines # <<>>
     /\ FrontmatterValid
     /\ ~HyphensInValue)
        => fm_errors.errors = <<>>

\* a file whose frontmatter satisfies the schema and whose title holds three
\* hyphens in a row: the block is cut at the title and the fields after it
\* are reported missing
C13_WitnessValidRejected ==
    /\ fm_errors.returned
    /\ fm_schema = DocsSchema
    /\ fm_doc.shape = "ok"
    /\ FrontmatterValid
    /\ HyphensInValue
    /\ fm_errors.errors = <<MissingMessage(FilePath, "description"),
                            MissingMessage(FilePath, "content_type")>>

\* a valid file without hyphens in its values, with every field of the schema
C13_WitnessValidAccepted ==
    /\ fm_errors.returned
    /\ fm_schema = DocsSchema
    /\ fm_doc.shape = "ok"
    /\ FrontmatterValid
    /\ ~HyphensInValue
    /\ Len(fm_doc.lines) = 4
    /\ fm_errors.errors = <<>>

----------------------------------------------------------------------------
(* Search queries (scripts/gap_detection/algolia_parser.py)                 *)
(*                                                                         *)
(* The text of a query has one character per run.  A click-through rate is *)
(* held in hundredths: 0.1 is 10.                                          *)

CATEGORY_KEYWORDS ==
    <<[category |-> "webhook",
       keywords |-> <<<<"w", "e", "b", "h", "o", "o", "k">>, <<"t", "r", "i", "g", "g", "e", "r">>, <<"h", "t", "t", "p", " ", "t", "r", "i", "g", "g", "e", "r">>>>],
      [category |-> "authentication",
       keywords |-> <<<<"a", "u", "t", "h">>, <<"o", "a", "u", "t", "h">>, <<"a", "p", "i", " ", "k", "e", "y">>, <<"c", "r", "e", "d", "e", "n", "t", "i", "a", "l">>, <<"t", "o", "k", "e", "n">>>>],
      [category |-> "error",
       keywords |-> <<<<"e", "r", "r", "o", "r">>, <<"f", "a", "i", "l">>, <<"n", "o", "t", " ", "w", "o", "r", "k", "i", "n", "g">>, <<"i", "s", "s", "u", "e">>>>],
      [category |-> "integration",
       keywords |-> <<<<"i", "n", "t", "e", "g", "r", "a", "t", "e">>, <<"c", "o", "n", "n", "e", "c", "t">>, <<"n", "o", "d", "e">>>>],
      [category |-> "workflow",
       keywords |-> <<<<"w", "o", "r", "k", "f", "l", "o", "w">>, <<"a", "u", "t", "o", "m", "a", "t", "i", "o", "n">>, <<"f", "l", "o", "w">>>>],
      [category |-> "data",
       keywords |-> <<<<"j", "s", "o", "n">>, <<"t", "r", "a", "n", "s", "f", "o", "r", "m">>, <<"p", "a", "r", "s", "e">>, <<"f", "o", "r", "m", "a", "t">>, <<"m", "a", "p">>>>],
      [category |-> "deployment",
       keywords |-> <<<<"d", "e", "p", "l", "o", "y">>, <<"i", "n", "s", "t", "a", "l", "l">>, <<"d", "o", "c", "k", "e", "r">>, <<"s", "e", "l", "f", "-", "h", "o", "s", "t">>>>]>>

\* s.lower()
LowerStr(s) == [i \in 1..Len(s) |-> Lower(s[i])]

\* keyword in s
Contains(s, keyword) ==
    \E i \in 1..(Len(s) - Len(keyword) + 1) : SubSeq(s, i, i + Len(keyword) - 1) = keyword

ContainsAny(s, words) == \E k \in 1..Len(words) : Contains(s, words[k])

\* the category loop: `break` leaves the keyword loop only, so the last
\* category with a keyword in the query stays
CategoryOf(query_lower, category) ==
    LET hits == {c \in 1..Len(CATEGORY_KEYWORDS) :
                    ContainsAny(query_lower, CATEGORY_KEYWORDS[c].keywords)}
    IN  IF hits = {} THEN category
        ELSE CATEGORY_KEYWORDS[CHOOSE c \in hits : \A d \in hits : d <= c].category

DocTypeOf(query_lower) ==
    CASE ContainsAny(query_lower, <<<<"e", "r", "r", "o", "r">>, <<"f", "a", "i", "l">>, <<"n", "o", "t", " ", "w", "o", "r", "k", "i", "n", "g">>, <<"i", "s", "s", "u", "e">>>>) -> "troubleshooting"
      [] ContainsAny(query_lower, <<<<"h", "o", "w", " ", "t", "o">>, <<"h", "o", "w", " ", "d", "o">>, <<"c", "o", "n", "f", "i", "g", "u", "r", "e">>, <<"s", "e", "t", "u", "p">>>>) -> "how-to"
      [] ContainsAny(query_lower, <<<<"w", "h", "a", "t", " ", "i", "s">>, <<"e", "x", "p", "l", "a", "i", "n">>, <<"u", "n", "d", "e", "r", "s", "t", "a", "n", "d">>>>) -> "concept"
      [] OTHER -> "reference"

\* a policy that rates unclicked results as the suggestions do
PriorityOf_LowCtrMedium(results_count, count, click_through_rate) ==
    CASE results_count = 0 /\ count >= 10 -> "high"
      [] results_count = 0 /\ count >= 5 -> "medium"
      [] click_through_rate < 10 /\ count >= 20 -> "medium"
      [] OTHER -> "low"

\* the if/elif chain on results_count, count and click_through_rate
PriorityOf(results_count, count, click_through_rate) ==
    IF results_count = 0 /\ count >= 10 THEN "high"
    ELSE IF results_count = 0 /\ count >= 5 THEN "medium"
    ELSE IF click_through_rate < 10 /\ count >= 20 THEN "high"
    ELSE "low"

_enrich_query(query) ==
    LET query_lower == LowerStr(query.query)
    IN  [query EXCEPT
            !.category = CategoryOf(query_lower, query.category),
            !.suggested_doc_type = DocTypeOf(query_lower),
            !.priority = PriorityOf(query.results_count, query.count,
                                    query.click_through_rate)]

\* SearchQuery(query, count, results_count, click_through_rate), with the
\* defaults of the dataclass
SearchQuery(query, count, results_count, click_through_rate) ==
    [query |-> query, count |-> count, results_count |-> results_count,
     click_through_rate |-> click_through_rate,
     category |-> "general", suggested_doc_type |-> "how-to", priority |-> "medium"]

QueryTexts ==
    {<<"W", "e", "b", "h", "o", "o", "k", " ", "e", "r", "r", "o", "r">>,
     <<"h", "o", "w", " ", "t", "o", " ", "s", "e", "t", "u", "p", " ", "O", "A", "u", "t", "h">>,
     <<"p", "r", "i", "c", "i", "n", "g">>}

\* counts on both sides of 5, 10 and 20; rates on both sides of 0.1
SearchCounts == {0, 4, 5, 9, 10, 19, 20}

SqInit ==
    /\ sq_query \in {SearchQuery(q, c, r, ctr) :
                        q \in QueryTexts, c \in SearchCounts, r \in {0, 3},
                        ctr \in {0, 9, 10, 50}}
    /\ sq_enriched = FALSE

\* self._enrich_query(query)
EnrichQuery ==
    /\ ~sq_enriched
    /\ sq_query' = _enrich_query(sq_query)
    /\ sq_enriched' = TRUE

InitQuery == SqInit /\ AggIdle /\ hashOrder = <<>> /\ DdIdle /\ DcIdle /\ DriftIdle
    /\ SlaIdle /\ FmIdle /\ CcIdle /\ CaIdle /\ BgIdle /\ AlIdle /\ DodIdle /\ SmIdle
    /\ CliIdle

NextQuery ==
    /\ EnrichQuery
    /\ UNCHANGED <<aggVars, ddVars, dcVars, driftVars, slaVars, fmVars, ccVars, caVars, bgVars
                   , alVars, dodVars, smVars, cliVars>>

SpecQuery == InitQuery /\ [][NextQuery]_vars

\* C14: the priority of an enriched query is given by the first rule that
\* matches: no results and at least 10 searches, high; no results and at
\* least 5 searches, medium; a click-through rate under 0.1 and at least 20
\* searches, high; otherwise low.
C14_PriorityByFirstMatchingRule ==
    sq_enriched =>
        LET zero == sq_query.results_count = 0
        IN  /\ (zero /\ sq_query.count >= 10) => sq_query.priority = "high"
            /\ (zero /\ sq_query.count < 10 /\ sq_query.count >= 5)
                  => sq_query.priority = "medium"
            /\ (~zero /\ sq_query.click_through_rate < 10 /\ sq_query.count >= 20)
                  => sq_query.priority = "high"
            /\ (zero /\ sq_query.count < 5) => sq_query.priority = "low"
            /\ (~zero /\ ~(sq_query.click_through_rate < 10 /\ sq_query.count >= 20))
                  => sq_query.priority = "low"

\* results that nobody clicks: the third rule decides
C14_Witness ==
    /\ sq_enriched
    /\ sq_query.results_count = 3
    /\ sq_query.count = 20
    /\ sq_query.click_through_rate = 9
    /\ sq_query.priority = "high"
    /\ sq_query.category = "error"
    /\ sq_query.suggested_doc_type = "troubleshooting"

\* no results and between 5 and 9 searches: the second rule decides
C14_WitnessMedium ==
    /\ sq_enriched
    /\ sq_query.results_count = 0
    /\ sq_query.count = 9
    /\ sq_query.priority = "medium"

----------------------------------------------------------------------------
(* The community collector (scripts/gap_detection/community_collector.py)   *)
(*                                                                         *)
(* A title is a sequence of words, each with one character per run; an     *)
(* HTML tag is a word that begins with "<".  What fetching a feed does is  *)
(* the feed's outcome: the items of the parsed document, or the exception  *)
(* raised by Request, urlopen, response.read or ET.fromstring.             *)

Collector_CATEGORY_KEYWORDS ==
    <<[category |-> <<"w", "e", "b", "h", "o", "o", "k">>,
       keywords |-> <<<<"w", "e", "b", "h", "o", "o", "k">>, <<"t", "r", "i", "g", "g", "e", "r">>, <<"h", "t", "t", "p">>, <<"c", "a", "l", "l", "b", "a", "c", "k">>, <<"e", "n", "d", "p", "o", "i", "n", "t">>>>],
      [category |-> <<"a", "u", "t", "h", "e", "n", "t", "i", "c", "a", "t", "i", "o", "n">>,
       keywords |-> <<<<"a", "u", "t", "h">>, <<"o", "a", "u", "t", "h">>, <<"a", "p", "i", " ", "k", "e", "y">>, <<"c", "r", "e", "d", "e", "n", "t", "i", "a", "l">>, <<"t", "o", "k", "e", "n">>, <<"l", "o", "g", "i", "n">>, <<"s", "s", "o">>>>],
      [category |-> <<"e", "r", "r", "o", "r">>,
       keywords |-> <<<<"e", "r", "r", "o", "r">>, <<"f", "a", "i", "l">>, <<"n", "o", "t", " ", "w", "o", "r", "k", "i", "n", "g">>, <<"i", "s", "s", "u", "e">>, <<"p", "r", "o", "b", "l", "e", "m">>, <<"b", "u", "g">>, <<"b", "r", "o", "k", "e", "n">>>>],
      [category |-> <<"i", "n", "t", "e", "g", "r", "a", "t", "i", "o", "n">>,
       keywords |-> <<<<"i", "n", "t", "e", "g", "r", "a", "t", "e">>, <<"c", "o", "n", "n", "e", "c", "t">>, <<"a", "p", "i">>, <<"s", "e", "r", "v", "i", "c", "e">>, <<"n", "o", "d", "e">>>>],
      [category |-> <<"w", "o", "r", "k", "f", "l", "o", "w">>,
       keywords |-> <<<<"w", "o", "r", "k", "f", "l", "o", "w">>, <<"a", "u", "t", "o", "m", "a", "t", "i", "o", "n">>, <<"f", "l", "o", "w">>, <<"e", "x", "e", "c", "u", "t", "e">>, <<"r", "u", "n">>>>],
      [category |-> <<"d", "a", "t", "a">>,
       keywords |-> <<<<"d", "a", "t", "a">>, <<"j", "s", "o", "n">>, <<"t", "r", "a", "n", "s", "f", "o", "r", "m">>, <<"m", "a", "p">>, <<"p", "a", "r", "s", "e">>, <<"f", "o", "r", "m", "a", "t">>>>],
      [category |-> <<"s", "c", "h", "e", "d", "u", "l", "i", "n", "g">>,
       keywords |-> <<<<"s", "c", "h", "e", "d", "u", "l", "e">>, <<"c", "r", "o", "n">>, <<"t", "i", "m", "e", "r">>, <<"i", "n", "t", "e", "r", "v", "a", "l">>, <<"t", "r", "i", "g", "g", "e", "r">>>>],
      [category |-> <<"d", "e", "p", "l", "o", "y", "m", "e", "n", "t">>,
       keywords |-> <<<<"d", "e", "p", "l", "o", "y">>, <<"i", "n", "s", "t", "a", "l", "l">>, <<"d", "o", "c", "k", "e", "r">>, <<"k", "u", "b", "e", "r", "n", "e", "t", "e", "s">>, <<"s", "e", "l", "f", "-", "h", "o", "s", "t">>, <<"c", "l", "o", "u", "d">>>>],
      [category |-> <<"p", "e", "r", "f", "o", "r", "m", "a", "n", "c", "e">>,
       keywords |-> <<<<"s", "l", "o", "w">>, <<"p", "e", "r", "f", "o", "r", "m", "a", "n", "c", "e">>, <<"t", "i", "m", "e", "o", "u", "t">>, <<"m", "e", "m", "o", "r", "y">>, <<"s", "c", "a", "l", "e">>>>],
      [category |-> <<"s", "e", "c", "u", "r", "i", "t", "y">>,
       keywords |-> <<<<"s", "e", "c", "u", "r", "i", "t", "y">>, <<"p", "e", "r", "m", "i", "s", "s", "i", "o", "n">>, <<"a", "c", "c", "e", "s", "s">>, <<"e", "n", "c", "r", "y", "p", "t">>, <<"s", "s", "l">>, <<"h", "t", "t", "p", "s">>>>]>>

\* DOC_TYPE_PATTERNS, each regular expression written as the literal texts
\* whose presence makes re.search succeed
DOC_TYPE_PATTERNS ==
    <<[doc_type |-> "troubleshooting",
       literals |-> <<<<"n", "o", "t", " ", "w", "o", "r", "k", "i", "n", "g">>, <<"e", "r", "r", "o", "r">>, <<"f", "a", "i", "l">>, <<"i", "s", "s", "u", "e">>, <<"p", "r", "o", "b", "l", "e", "m">>, <<"c", "a", "n", "t">>, <<"c", "a", "n", "'", "t">>, <<"d", "o", "e", "s", "n", "t">>, <<"d", "o", "e", "s", "n", "'", "t">>, <<"w", "o", "n", "t">>, <<"w", "o", "n", "'", "t">>, <<"h", "e", "l", "p">>, <<"s", "t", "u", "c", "k">>>>],
      [doc_type |-> "how-to",
       literals |-> <<<<"h", "o", "w", " ", "d", "o">>, <<"h", "o", "w", " ", "c", "a", "n">>, <<"h", "o", "w", " ", "t", "o">>, <<"w", "a", "y", " ", "t", "o">>, <<"p", "o", "s", "s", "i", "b", "l", "e", " ", "t", "o">>, <<"w", "a", "n", "t", " ", "t", "o">>, <<"n", "e", "e", "d", " ", "t", "o">>, <<"t", "r", "y", "i", "n", "g", " ", "t", "o">>, <<"l", "o", "o", "k", "i", "n", "g", " ", "f", "o", "r">>>>],
      [doc_type |-> "concept",
       literals |-> <<<<"w", "h", "a", "t", " ", "i", "s">>, <<"w", "h", "a", "t", " ", "a", "r", "e">>, <<"d", "i", "f", "f", "e", "r", "e", "n", "c", "e", " ", "b", "e", "t", "w", "e", "e", "n">>, <<"e", "x", "p", "l", "a", "i", "n">>, <<"u", "n", "d", "e", "r", "s", "t", "a", "n", "d">>, <<"w", "h", "y", " ", "d", "o", "e", "s">>, <<"w", "h", "y", " ", "i", "s">>, <<"w", "h", "y", " ", "d", "o">>>>],
      [doc_type |-> "reference",
       literals |-> <<<<"d", "o", "c", "u", "m", "e", "n", "t", "a", "t", "i", "o", "n">>, <<"p", "a", "r", "a", "m", "e", "t", "e", "r">>, <<"o", "p", "t", "i", "o", "n">>, <<"c", "o", "n", "f", "i", "g", "u", "r", "a", "t", "i", "o", "n">>, <<"s", "e", "t", "t", "i", "n", "g">>, <<"l", "i", "s", "t", " ", "o", "f">>>>]>>

stop_words ==
    {<<"a">>, <<"a", "n">>, <<"t", "h", "e">>, <<"i", "s">>, <<"a", "r", "e">>,
     <<"w", "a", "s">>, <<"w", "e", "r", "e">>, <<"b", "e">>,
     <<"b", "e", "e", "n">>, <<"b", "e", "i", "n", "g">>, <<"h", "a", "v", "e">>,
     <<"h", "a", "s">>, <<"h", "a", "d">>, <<"d", "o">>, <<"d", "o", "e", "s">>,
     <<"d", "i", "d">>, <<"w", "i", "l", "l">>, <<"w", "o", "u", "l", "d">>,
     <<"c", "o", "u", "l", "d">>, <<"s", "h", "o", "u", "l", "d">>,
     <<"m", "a", "y">>, <<"m", "i", "g", "h", "t">>, <<"m", "u", "s", "t">>,
     <<"c", "a", "n">>, <<"t", "o">>, <<"o", "f">>, <<"i", "n">>, <<"f", "o", "r">>,
     <<"o", "n">>, <<"w", "i", "t", "h">>, <<"a", "t">>, <<"b", "y">>,
     <<"f", "r", "o", "m">>, <<"a", "s">>, <<"i", "n", "t", "o">>,
     <<"t", "h", "r", "o", "u", "g", "h">>, <<"d", "u", "r", "i", "n", "g">>,
     <<"b", "e", "f", "o", "r", "e">>, <<"a", "f", "t", "e", "r">>,
     <<"a", "b", "o", "v", "e">>, <<"b", "e", "l", "o", "w">>,
     <<"b", "e", "t", "w", "e", "e", "n">>, <<"u", "n", "d", "e", "r">>,
     <<"a", "g", "a", "i", "n">>, <<"f", "u", "r", "t", "h", "e", "r">>,
     <<"t", "h", "e", "n">>, <<"o", "n", "c", "e">>, <<"h", "e", "r", "e">>,
     <<"t", "h", "e", "r", "e">>, <<"w", "h", "e", "n">>,
     <<"w", "h", "e", "r", "e">>, <<"w", "h", "y">>, <<"h", "o", "w">>,
     <<"a", "l", "l">>, <<"e", "a", "c", "h">>, <<"f", "e", "w">>,
     <<"m", "o", "r", "e">>, <<"m", "o", "s", "t">>, <<"o", "t", "h", "e", "r">>,
     <<"s", "o", "m", "e">>, <<"s", "u", "c", "h">>, <<"n", "o">>,
     <<"n", "o", "r">>, <<"n", "o", "t">>, <<"o", "n", "l", "y">>,
     <<"o", "w", "n">>, <<"s", "a", "m", "e">>, <<"s", "o">>,
     <<"t", "h", "a", "n">>, <<"t", "o", "o">>, <<"v", "e", "r", "y">>,
     <<"j", "u", "s", "t">>, <<"a", "n", "d">>, <<"b", "u", "t">>, <<"i", "f">>,
     <<"o", "r">>, <<"b", "e", "c", "a", "u", "s", "e">>,
     <<"u", "n", "t", "i", "l">>, <<"w", "h", "i", "l", "e">>,
     <<"t", "h", "i", "s">>, <<"t", "h", "a", "t">>, <<"t", "h", "e", "s", "e">>,
     <<"t", "h", "o", "s", "e">>, <<"i">>, <<"m", "y">>, <<"m", "e">>, <<"w", "e">>,
     <<"o", "u", "r">>, <<"y", "o", "u">>, <<"y", "o", "u", "r">>, <<"i", "t">>}

\* re.sub(r'<[^>]+>', '', title), then ' '.join(title.split())
_clean_title(words) == SelectSeq(words, LAMBDA w : w # <<>> /\ w[1] # "<")

\* the words of a title as one string
RECURSIVE JoinWords(_)
JoinWords(words) ==
    IF words = <<>> THEN <<>>
    ELSE IF Len(words) = 1 THEN words[1]
    ELSE words[1] \o <<" ">> \o JoinWords(Tail(words))

_categorize_topic(title) ==
    LET title_lower == LowerStr(title)
        hits == {c \in 1..Len(Collector_CATEGORY_KEYWORDS) :
                    ContainsAny(title_lower, Collector_CATEGORY_KEYWORDS[c].keywords)}
    IN  IF hits = {} THEN <<"g", "e", "n", "e", "r", "a", "l">>
        ELSE Collector_CATEGORY_KEYWORDS[Min(hits)].category

_determine_doc_type(title) ==
    LET title_lower == LowerStr(title)
        hits == {d \in 1..Len(DOC_TYPE_PATTERNS) :
                    ContainsAny(title_lower, DOC_TYPE_PATTERNS[d].literals)}
    IN  IF hits = {} THEN "how-to" ELSE DOC_TYPE_PATTERNS[Min(hits)].doc_type

Letters ==
    {"a", "b", "c", "d", "e", "f", "g", "h", "i", "j", "k", "l", "m",
     "n", "o", "p", "q", "r", "s", "t", "u", "v", "w", "x", "y", "z"}

\* re.findall(r'\b[a-zA-Z][a-zA-Z0-9_-]*\b', title.lower()), filtered, first 10
_extract_keywords(words) ==
    LET lowered == [i \in 1..Len(words) |-> LowerStr(words[i])]
        found == SelectSeq(lowered, LAMBDA w : w[1] \in Letters)
        keywords == SelectSeq(found, LAMBDA w : w \notin stop_words /\ Len(w) > 2)
    IN  Prefix(keywords, 10)

NoTopic == [none |-> TRUE]

\* _parse_rss_item(item, feed), before the feed's source is filled in
_parse_rss_item(item) ==
    IF ~item.titled \/ item.title = <<>> THEN NoTopic
    ELSE LET words == _clean_title(item.title)
             title == JoinWords(words)
         IN       [none |-> FALSE, title |-> title, url |-> item.link,
                   category |-> _categorize_topic(title),
                   keywords |-> _extract_keywords(words),
                   potential_doc_type |-> _determine_doc_type(title),
                   frequency |-> 1]

\* an <item> whose <title> has these words
Item(title) == [titled |-> TRUE, title |-> title, link |-> "https://community/t"]

\* an <item> without <title>
UntitledItem == [titled |-> FALSE, title |-> <<>>, link |-> "https://community/t"]

RetryItem == Item(<<<<"<", "b", ">">>, <<"W", "e", "b", "h", "o", "o", "k">>, <<"r", "e", "t", "r", "y">>, <<"n", "o", "t">>, <<"w", "o", "r", "k", "i", "n", "g">>>>)
VerifyItem == Item(<<<<"W", "e", "b", "h", "o", "o", "k">>, <<"s", "i", "g", "n", "a", "t", "u", "r", "e">>, <<"h", "o", "w">>, <<"t", "o">>, <<"v", "e", "r", "i", "f", "y">>, <<"4", "0", "1">>>>)
TokenItem == Item(<<<<"O", "A", "u", "t", "h">>, <<"t", "o", "k", "e", "n">>, <<"e", "x", "p", "i", "r", "e", "d">>>>)
KeylessItem == Item(<<<<"I", "s">>, <<"i", "t">>, <<"s", "o">>>>)

\* twenty questions, each with a first keyword of its own
FillerWords ==
    <<<<"a", "l", "p", "h", "a">>, <<"b", "r", "a", "v", "o">>,
      <<"c", "h", "a", "r", "l", "i", "e">>, <<"d", "e", "l", "t", "a">>,
      <<"e", "c", "h", "o">>, <<"f", "o", "x", "t", "r", "o", "t">>,
      <<"g", "o", "l", "f">>, <<"h", "o", "t", "e", "l">>,
      <<"i", "n", "d", "i", "a">>, <<"j", "u", "l", "i", "e", "t">>,
      <<"k", "i", "l", "o">>, <<"l", "i", "m", "a">>, <<"m", "i", "k", "e">>,
      <<"n", "o", "v", "e", "m", "b", "e", "r">>, <<"o", "s", "c", "a", "r">>,
      <<"p", "a", "p", "a">>, <<"q", "u", "e", "b", "e", "c">>,
      <<"r", "o", "m", "e", "o">>, <<"s", "i", "e", "r", "r", "a">>,
      <<"t", "a", "n", "g", "o">>>>

FillerItem(k) == Item(<<FillerWords[k], <<"n", "o", "d", "e">>, <<"s", "e", "t", "u", "p">>>>)

ItemPool ==
    {RetryItem, VerifyItem, TokenItem, KeylessItem, UntitledItem}
        \cup {FillerItem(k) : k \in 1..Len(FillerWords)}

\* the topic of every item of the pool
ParsedItems == [item \in ItemPool |-> _parse_rss_item(item)]

Raises(exception) == [kind |-> "raises", exception |-> exception]

Delivers(items) == [kind |-> "items", items |-> items]

\* except (URLError, ET.ParseError): HTTPError is a URLError
CaughtInFetch(exception) == exception \in {"URLError", "HTTPError", "ParseError"}

_fetch_rss(feed, limit) ==
    IF feed.outcome.kind = "raises"
    THEN IF CaughtInFetch(feed.outcome.exception)
         THEN [raised |-> FALSE, topics |-> <<>>]
         ELSE [raised |-> TRUE, exception |-> feed.outcome.exception]
    ELSE LET items == Prefix(feed.outcome.items, limit)
             parsed == [i \in 1..Len(items) |-> ParsedItems[items[i]]]
             kept == SelectSeq(parsed, LAMBDA t : ~t.none)
         IN  [raised |-> FALSE,
              topics |-> [i \in 1..Len(kept) |->
                             [title |-> kept[i].title, url |-> kept[i].url,
                              source |-> feed.source, category |-> kept[i].category,
                              keywords |-> kept[i].keywords,
                              potential_doc_type |-> kept[i].potential_doc_type,
                              frequency |-> 1]]]

\* the elements of a sequence, each once, in the order of first occurrence
Distinct(s) == SelectSeq([i \in 1..Len(s) |-> [x |-> s[i], first |-> \A j \in 1..(i - 1) : s[j] # s[i]]],
                         LAMBDA e : e.first)

Occurrences(s, x) == Cardinality({i \in 1..Len(s) : s[i] = x})

\* a stable sort of records by descending count
RECURSIVE SortByCountDescending(_)
SortByCountDescending(s) ==
    IF s = <<>> THEN <<>>
    ELSE LET best == Min({i \in 1..Len(s) : \A j \in 1..Len(s) : s[j].count <= s[i].count})
         IN  <<s[best]>> \o SortByCountDescending(
                 [i \in 1..(Len(s) - 1) |-> IF i < best THEN s[i] ELSE s[i + 1]])

\* Counter(s).most_common(n)
most_common(s, n) ==
    LET d == Distinct(s)
    IN  Prefix(SortByCountDescending([i \in 1..Len(d) |->
                   [key |-> d[i].x, count |-> Occurrences(s, d[i].x)]]), n)

\* _analyze_keyword_frequency(topics)
_analyze_keyword_frequency(topics) ==
    most_common(Concat([i \in 1..Len(topics) |->
                    topics[i].keywords \o <<topics[i].category>>]), 50)

GroupKey(topic) ==
    IF topic.keywords # <<>> THEN topic.category \o <<":">> \o topic.keywords[1]
    ELSE topic.category

\* _group_similar_topics(topics): the groups in the order their keys first occur
_group_similar_topics(topics) ==
    LET keys == Distinct([i \in 1..Len(topics) |-> GroupKey(topics[i])])
    IN  [g \in 1..Len(keys) |->
            [key |-> keys[g].x,
             topics |-> SelectSeq(topics, LAMBDA t : GroupKey(t) = keys[g].x)]]

\* a threshold that leaves a group of exactly five at medium
SuggestionPriority_OverFive(size) == IF size > 5 THEN High ELSE Medium

\* 'high' if len(group_topics) >= 5 else 'medium'
SuggestionPriority(size) == IF size >= 5 THEN High ELSE Medium

MaxSuggestions == 20

_generate_doc_suggestions(topics) ==
    LET groups == _group_similar_topics(topics)
        large == SelectSeq(groups, LAMBDA g : Len(g.topics) >= 2)
        suggestions ==
            [i \in 1..Len(large) |->
                LET group_topics == large[i].topics
                IN  [topic |-> large[i].key,
                     frequency |-> Len(group_topics),
                     count |-> Len(group_topics),
                     suggested_doc_type |->
                         most_common([t \in 1..Len(group_topics) |->
                                         group_topics[t].potential_doc_type], 1)[1].key,
                     keywords |->
                         LET top == most_common(Concat([t \in 1..Len(group_topics) |->
                                                    group_topics[t].keywords]), 5)
                         IN  [k \in 1..Len(top) |-> top[k].key],
                     category |-> group_topics[1].category,
                     sample_questions |->
                         [t \in 1..Len(Prefix(group_topics, 3)) |-> group_topics[t].title],
                     priority |-> SuggestionPriority(Len(group_topics))]]
    IN  Prefix(SortByCountDescending(suggestions), MaxSuggestions)

collect_all(feeds, limit_per_feed) ==
    LET fetched == [i \in 1..Len(feeds) |-> _fetch_rss(feeds[i], limit_per_feed)]
        failing == {i \in 1..Len(feeds) : fetched[i].raised}
    IN  IF failing # {}
        THEN [state |-> "raised", exception |-> fetched[Min(failing)].exception]
        ELSE LET topics == Concat([i \in 1..Len(fetched) |-> fetched[i].topics])
             IN  [state |-> "returned",
                  topics |-> topics,
                  keyword_frequency |-> _analyze_keyword_frequency(topics),
                  suggested_docs |-> _generate_doc_suggestions(topics)]

MaxTopics == 5      \* items in the feed whose content varies

Feed(name, outcome) ==
    [url |-> name, name |-> name, source |-> name, outcome |-> outcome]

\* what the other feed of the list does
OtherOutcomes ==
    {Raises("URLError"), Raises("HTTPError"), Raises("ParseError"),
     Raises("IncompleteRead"), Raises("ValueError"),
     Delivers(<<TokenItem, UntitledItem, TokenItem, KeylessItem>>),
     Delivers(Concat([k \in 1..Len(FillerWords) |-> <<FillerItem(k), FillerItem(k)>>]))}

CcInit ==
    /\ \E items \in SeqsUpTo({RetryItem, VerifyItem, KeylessItem}, MaxTopics) :
          \/ cc_feeds = <<Feed("questions", Delivers(items))>>
          \/ \E other \in OtherOutcomes :
                \/ cc_feeds = <<Feed("features", other), Feed("questions", Delivers(items))>>
                \/ /\ Len(items) <= 2
                   /\ cc_feeds = <<Feed("questions", Delivers(items)), Feed("features", other)>>
    /\ cc_limit \in {2, 50}
    /\ cc_result = [state |-> "none"]

\* result = collector.collect_all(limit_per_feed)
CollectAll ==
    /\ cc_result.state = "none"
    /\ cc_result' = collect_all(cc_feeds, cc_limit)
    /\ UNCHANGED <<cc_feeds, cc_limit>>

InitCollector == CcInit /\ AggIdle /\ hashOrder = <<>> /\ DdIdle /\ DcIdle /\ DriftIdle
    /\ SlaIdle /\ FmIdle /\ SqIdle /\ CaIdle /\ BgIdle /\ AlIdle /\ DodIdle /\ SmIdle
    /\ CliIdle

NextCollector ==
    /\ CollectAll
    /\ UNCHANGED <<aggVars, ddVars, dcVars, driftVars, slaVars, fmVars, sqVars, caVars, bgVars
                   , alVars, dodVars, smVars, cliVars>>

SpecCollector == InitCollector /\ [][NextCollector]_vars

----------------------------------------------------------------------------
(* Grouping of community topics into suggestions                           *)

CollectorReturned == cc_result.state = "returned"

\* the group keys of the collected topics, and the topics of one key
TopicKeys == {GroupKey(cc_result.topics[i]) : i \in 1..Len(cc_result.topics)}

GroupSize(key) ==
    Cardinality({i \in 1..Len(cc_result.topics) : GroupKey(cc_result.topics[i]) = key})

FirstMember(key) ==
    Min({i \in 1..Len(cc_result.topics) : GroupKey(cc_result.topics[i]) = key})

SuggestionsFor(key) ==
    {i \in 1..Len(cc_result.suggested_docs) : cc_result.suggested_docs[i].topic = key}

Qualifying == {key \in TopicKeys : GroupSize(key) >= 2}

RightSuggestion(s) ==
    /\ s.frequency = GroupSize(s.topic)
    /\ s.priority = IF GroupSize(s.topic) >= 5 THEN High ELSE Medium

\* C15 (as stated): every group of topics sharing a key that has at least two
\* members becomes one suggestion whose frequency is the group size and whose
\* priority is high when the size is at least 5 and medium otherwise; a group
\* with a single member never becomes a suggestion.
C15_EveryGroupOfTwoSuggested ==
    CollectorReturned =>
        \A key \in TopicKeys :
            /\ GroupSize(key) >= 2 =>
                  /\ Cardinality(SuggestionsFor(key)) = 1
                  /\ \A i \in SuggestionsFor(key) : RightSuggestion(cc_result.suggested_docs[i])
            /\ GroupSize(key) = 1 => SuggestionsFor(key) = {}

\* C15 (amended): every suggestion stands for a group of at least two topics,
\* carries the group's size as frequency and priority high exactly when the
\* size is at least 5; no group has two suggestions and a single-member group
\* has none; when at most twenty groups have two members or more each of them
\* has its suggestion, and otherwise exactly twenty suggestions are returned,
\* every group left out being no larger than any group kept, and appearing
\* later in the feeds than any kept group of the same size.
C15_GroupsOfTwoSuggestedUpToTwenty ==
    CollectorReturned =>
        /\ \A i \in 1..Len(cc_result.suggested_docs) :
              /\ cc_result.suggested_docs[i].topic \in Qualifying
              /\ RightSuggestion(cc_result.suggested_docs[i])
        /\ \A key \in TopicKeys : Cardinality(SuggestionsFor(key)) <= 1
        /\ Cardinality(Qualifying) <= MaxSuggestions =>
              \A key \in Qualifying : SuggestionsFor(key) # {}
        /\ Cardinality(Qualifying) > MaxSuggestions =>
              /\ Len(cc_result.suggested_docs) = MaxSuggestions
              /\ \A out \in Qualifying : SuggestionsFor(out) = {} =>
                    \A kept \in Qualifying : SuggestionsFor(kept) # {} =>
                        \/ GroupSize(out) < GroupSize(kept)
                        \/ /\ GroupSize(out) = GroupSize(kept)
                           /\ FirstMember(out) > FirstMember(kept)

\* a group of five suggested at high, a smaller one at medium, a single topic left out
C15_Witness ==
    /\ CollectorReturned
    /\ \E key \in TopicKeys :
          /\ GroupSize(key) = 5
          /\ \E i \in SuggestionsFor(key) : cc_result.suggested_docs[i].priority = High
    /\ \E key \in TopicKeys :
          /\ GroupSize(key) \in 2..4
          /\ \E i \in SuggestionsFor(key) : cc_result.suggested_docs[i].priority = Medium
    /\ \E key \in TopicKeys : GroupSize(key) = 1 /\ SuggestionsFor(key) = {}

\* more than twenty groups of two or more, one of them without a suggestion
C15_WitnessTwentyReturned ==
    /\ CollectorReturned
    /\ Cardinality(Qualifying) > MaxSuggestions
    /\ Len(cc_result.suggested_docs) = MaxSuggestions
    /\ \E key \in Qualifying : SuggestionsFor(key) = {}

----------------------------------------------------------------------------
(* Feed failures                                                           *)

CollectorDone == cc_result.state # "none"

FailingFeeds == {i \in 1..Len(cc_feeds) : cc_feeds[i].outcome.kind = "raises"}

\* the topics of the feeds that were fetched and parsed, in feed order
TopicsOfWorkingFeeds ==
    Concat([i \in 1..Len(cc_feeds) |->
               IF i \in FailingFeeds THEN <<>>
               ELSE _fetch_rss(cc_feeds[i], cc_limit).topics])

\* C16 (as stated): a failure to fetch or parse any one feed is never fatal:
\* collect_all returns a CollectionResult, with no topic from the failing feed
\* and the topics of every other feed.
C16_FeedFailureNeverFatal ==
    CollectorDone =>
        /\ cc_result.state = "returned"
        /\ cc_result.topics = TopicsOfWorkingFeeds

\* what holds: a URLError (HTTPError included) or an XML ParseError is skipped
C16_CaughtFailureSkipped ==
    (CollectorDone /\ \A i \in FailingFeeds : CaughtInFetch(cc_feeds[i].outcome.exception)) =>
        /\ cc_result.state = "returned"
        /\ cc_result.topics = TopicsOfWorkingFeeds

\* a feed failed with a URLError and the other feed's topics were returned
C16_WitnessSkipped ==
    /\ cc_result.state = "returned"
    /\ \E i \in FailingFeeds : cc_feeds[i].outcome.exception = "URLError"
    /\ cc_result.topics # <<>>

\* a feed failure left collect_all by an exception
C16_WitnessRaised ==
    /\ cc_result.state = "raised"
    /\ cc_result.exception \in {"IncompleteRead", "ValueError"}

----------------------------------------------------------------------------
(* The code change analyzer (scripts/gap_detection/code_analyzer.py)        *)
(*                                                                         *)
(* A diff is the sequence of the lines of its hunks; the header lines git  *)
(* prints before them match none of the analyzer's expressions for the     *)
(* paths used here.  The regular expressions are given by what the re      *)
(* module returns for them on each line of DiffLines.                      *)

DiffLines ==
    {"-def foo(a):",
     "+def foo(a, b):",
     "+def foo(a):",
     "+def bar(a):",
     "-def bar(a):",
     "-export function foo(a) {",
     "+export function bar(a) {",
     "+@deprecated",
     "+app.get('/users', listUsers)",
     "+token = os.getenv('API_TOKEN')",
     "+CREATE TABLE users",
     "+program.command('deploy')",
     " return 1",
     "+x = 1"}

\* PATTERNS: the categories in dictionary order, each with its number of expressions
PATTERNS ==
    <<[category |-> "api_endpoint", patterns |-> 5],
      [category |-> "env_var", patterns |-> 6],
      [category |-> "config_option", patterns |-> 5],
      [category |-> "cli_command", patterns |-> 5],
      [category |-> "public_function", patterns |-> 8],
      [category |-> "breaking_change", patterns |-> 7],
      [category |-> "webhook", patterns |-> 5],
      [category |-> "database_schema", patterns |-> 7],
      [category |-> "authentication", patterns |-> 8],
      [category |-> "error_handling", patterns |-> 5]>>

\* re.findall(PATTERNS[category][k], line, re.MULTILINE | re.IGNORECASE), each
\* match reduced to match[-1] when it is a tuple
PatternFindall(category, k, line) ==
    CASE category = "api_endpoint" /\ k = 3 /\ line = "+app.get('/users', listUsers)" -> <<"/users">>
      [] category = "env_var" /\ k = 3 /\ line = "+token = os.getenv('API_TOKEN')" -> <<"API_TOKEN">>
      [] category = "env_var" /\ k = 5 /\ line = "+token = os.getenv('API_TOKEN')" -> <<"API_TOKEN">>
      [] category = "cli_command" /\ k = 1 /\ line = "+program.command('deploy')" -> <<"deploy">>
      [] category = "public_function" /\ k = 1 /\ line = "+export function bar(a) {" -> <<"bar">>
      [] category = "public_function" /\ k = 5 /\ line = "+def foo(a, b):" -> <<"foo">>
      [] category = "public_function" /\ k = 5 /\ line = "+def foo(a):" -> <<"foo">>
      [] category = "public_function" /\ k = 5 /\ line = "+def bar(a):" -> <<"bar">>
      [] category = "breaking_change" /\ k = 1 /\ line = "+@deprecated" -> <<"@deprecated">>
      [] category = "breaking_change" /\ k = 5 /\ line = "+@deprecated" -> <<"@deprecated">>
      [] category = "database_schema" /\ k = 1 /\ line = "+CREATE TABLE users" -> <<"CREATE TABLE">>
      [] category = "authentication" /\ k = 2 /\ line = "+token = os.getenv('API_TOKEN')" -> <<"token", "TOKEN">>
      [] OTHER -> <<>>

\* re.match(SIGNATURE_PATTERNS[name], line).groups(), a group that did not
\* take part given as "" (`if g` treats None and '' alike); <<>> when no match
SignatureGroups(name, line) ==
    CASE name = "function_js" /\ line = "-export function foo(a) {" -> <<"export ", "", "foo", "a">>
      [] name = "function_js_new" /\ line = "+export function bar(a) {" -> <<"export ", "", "bar", "a">>
      [] name = "function_py" /\ line = "-def foo(a):" -> <<"foo", "a">>
      [] name = "function_py" /\ line = "-def bar(a):" -> <<"bar", "a">>
      [] name = "function_py_new" /\ line = "+def foo(a, b):" -> <<"foo", "a, b">>
      [] name = "function_py_new" /\ line = "+def foo(a):" -> <<"foo", "a">>
      [] name = "function_py_new" /\ line = "+def bar(a):" -> <<"bar", "a">>
      [] OTHER -> <<>>

\* re.findall(r'^\+[^+]', ...) and re.findall(r'^-[^-]', ...) on one line
AddedLines ==
    {"+def foo(a, b):",
     "+def foo(a):",
     "+def bar(a):",
     "+export function bar(a) {",
     "+@deprecated",
     "+app.get('/users', listUsers)",
     "+token = os.getenv('API_TOKEN')",
     "+CREATE TABLE users",
     "+program.command('deploy')",
     "+x = 1"}

RemovedLines ==
    {"-def foo(a):",
     "-def bar(a):",
     "-export function foo(a) {"}

\* COMMIT_PATTERNS: the first entry, in dictionary order, that re.match accepts
CommitType(message) ==
    CASE message = "feat: add users" -> "feature"
      [] message = "fix!: drop foo" -> "breaking"
      [] OTHER -> "none"

IMPORTANT_PATHS ==
    <<[priority |-> High,
       patterns |->
          <<<<"p", "a", "c", "k", "a", "g", "e", "s", "/", "c", "l", "i", "/">>,
            <<"p", "a", "c", "k", "a", "g", "e", "s", "/", "n", "o", "d", "e", "s", "-", "b", "a", "s", "e", "/">>,
            <<"p", "a", "c", "k", "a", "g", "e", "s", "/", "w", "o", "r", "k", "f", "l", "o", "w", "/">>,
            <<"*", "*", "/", "a", "p", "i", "/">>,
            <<"*", "*", "/", "r", "o", "u", "t", "e", "s", "/">>,
            <<"*", "*", "/", "c", "o", "m", "m", "a", "n", "d", "s", "/">>,
            <<"*", "*", "/", "c", "o", "n", "t", "r", "o", "l", "l", "e", "r", "s", "/">>,
            <<"*", "*", "/", "e", "n", "d", "p", "o", "i", "n", "t", "s", "/">>,
            <<"s", "r", "c", "/", "a", "p", "i", "/">>,
            <<"l", "i", "b", "/", "a", "p", "i", "/">>>>],
      [priority |-> Medium,
       patterns |->
          <<<<"p", "a", "c", "k", "a", "g", "e", "s", "/", "e", "d", "i", "t", "o", "r", "-", "u", "i", "/">>,
            <<"*", "*", "/", "c", "o", "n", "f", "i", "g", "/">>,
            <<"*", "*", "/", "t", "y", "p", "e", "s", "/">>,
            <<"*", "*", "/", "s", "c", "h", "e", "m", "a", "s", "/">>,
            <<"*", "*", "/", "m", "o", "d", "e", "l", "s", "/">>,
            <<"*", "*", "/", "i", "n", "t", "e", "r", "f", "a", "c", "e", "s", "/">>,
            <<"*", "*", "/", "s", "e", "r", "v", "i", "c", "e", "s", "/">>>>],
      [priority |-> Low,
       patterns |->
          <<<<"*", "*", "/", "t", "e", "s", "t", "s", "/">>,
            <<"*", "*", "/", "t", "e", "s", "t", "/">>,
            <<"*", "*", "/", "_", "_", "t", "e", "s", "t", "s", "_", "_", "/">>,
            <<"*", "*", "/", "m", "o", "c", "k", "s", "/">>,
            <<"*", "*", "/", "_", "_", "m", "o", "c", "k", "s", "_", "_", "/">>,
            <<"*", "*", "/", "f", "i", "x", "t", "u", "r", "e", "s", "/">>>>]>>

IGNORE_PATHS ==
    <<<<"n", "o", "d", "e", "_", "m", "o", "d", "u", "l", "e", "s", "/">>,
      <<".", "g", "i", "t", "/">>,
      <<"d", "i", "s", "t", "/">>,
      <<"b", "u", "i", "l", "d", "/">>,
      <<"*", ".", "t", "e", "s", "t", ".", "*">>,
      <<"*", ".", "s", "p", "e", "c", ".", "*">>,
      <<"_", "_", "s", "n", "a", "p", "s", "h", "o", "t", "s", "_", "_">>,
      <<".", "n", "e", "x", "t", "/">>,
      <<"c", "o", "v", "e", "r", "a", "g", "e", "/">>,
      <<"*", ".", "m", "i", "n", ".", "j", "s">>,
      <<"*", ".", "b", "u", "n", "d", "l", "e", ".", "j", "s">>,
      <<"p", "a", "c", "k", "a", "g", "e", "-", "l", "o", "c", "k", ".", "j", "s", "o", "n">>,
      <<"y", "a", "r", "n", ".", "l", "o", "c", "k">>>>

\* _should_ignore(file_path)
_should_ignore(file_path) ==
    \E k \in 1..Len(IGNORE_PATHS) :
        LET pattern == IGNORE_PATHS[k]
        IN  IF pattern[1] = "*" THEN Contains(file_path, Tail(pattern))
            ELSE Contains(file_path, pattern)

\* a list of high-priority categories without 'authentication'
_adjust_priority_AuthenticationKept(base_priority, category) ==
    IF category \in {"breaking_change", "api_endpoint", "cli_command", "signature_change",
                     "removed_function", "database_schema"}
    THEN High ELSE base_priority

\* _adjust_priority(base_priority, category)
_adjust_priority(base_priority, category) ==
    IF category \in {"breaking_change", "api_endpoint", "cli_command", "signature_change",
                     "removed_function", "authentication", "database_schema"}
    THEN High ELSE base_priority

\* _map_status(status): by the first letter of the status
_map_status(status) ==
    CASE status = "A" -> "added"
      [] status = "M" -> "modified"
      [] status = "D" -> "deleted"
      [] status = "R100" -> "renamed"
      [] status = "C75" -> "copied"
      [] OTHER -> "modified"

\* _get_priority_by_path(file_path): the first entry, in dictionary order, with
\* a pattern found in the path
_get_priority_by_path(file_path) ==
    LET Found(pattern) ==
            IF Len(pattern) >= 3 /\ SubSeq(pattern, 1, 3) = <<"*", "*", "/">>
            THEN Contains(file_path, SubSeq(pattern, 4, Len(pattern)))
            ELSE Contains(file_path, pattern)
        hits == {p \in 1..Len(IMPORTANT_PATHS) :
                    \E k \in 1..Len(IMPORTANT_PATHS[p].patterns) :
                        Found(IMPORTANT_PATHS[p].patterns[k])}
    IN  IF hits = {} THEN Medium ELSE IMPORTANT_PATHS[Min(hits)].priority

\* next((g for g in groups if g and not g in [...]), None), None given as ""
FuncName(groups) ==
    LET named == SelectSeq(groups, LAMBDA g :
                     g # "" /\ g \notin {"async", "export", "public", "private",
                                         "protected", "const"})
    IN  IF named = <<>> THEN "" ELSE named[1]

\* the pattern names of the loop, each with the name of its '_new' companion
SignaturePatternNames ==
    <<[old |-> "function_js", new |-> "function_js_new"],
      [old |-> "arrow_js", new |-> "arrow_js_new"],
      [old |-> "method_ts", new |-> "method_ts_new"],
      [old |-> "function_py", new |-> "function_py_new"]>>

\* the assignments signatures[func_name] = {'params': params, ...} made while
\* the lines are read, for old_signatures (side "old") or new_signatures ("new")
SignatureWrites(lines, side) ==
    LET Write(line, names) ==
            LET groups == SignatureGroups(IF side = "old" THEN names.old ELSE names.new, line)
            IN  IF groups = <<>> \/ FuncName(groups) = "" THEN <<>>
                ELSE <<[func_name |-> FuncName(groups), params |-> groups[Len(groups)]]>>
    IN  Concat([i \in 1..Len(lines) |->
            Concat([p \in 1..Len(SignaturePatternNames) |->
                Write(lines[i], SignaturePatternNames[p])])])

\* the keys of the dictionary the writes leave, and the value of one key
SignatureNames(writes) == {writes[i].func_name : i \in 1..Len(writes)}

SignatureParams(writes, func_name) ==
    writes[CHOOSE i \in 1..Len(writes) :
              /\ writes[i].func_name = func_name
              /\ \A j \in (i + 1)..Len(writes) : writes[j].func_name # func_name].params

\* a set of strings in the order this process iterates it
Iterate(names, order) == SelectSeq(order, LAMBDA n : n \in names)

NoValue == <<>>

\* _analyze_signature_changes(diff_content, file_path)
_analyze_signature_changes(lines, file_path, order) ==
    LET old_signatures == SignatureWrites(lines, "old")
        new_signatures == SignatureWrites(lines, "new")
        both == Iterate(SignatureNames(old_signatures) \cap SignatureNames(new_signatures), order)
        changed == SelectSeq(both, LAMBDA f : SignatureParams(old_signatures, f)
                                                # SignatureParams(new_signatures, f))
        added == Iterate(SignatureNames(new_signatures) \ SignatureNames(old_signatures), order)
        removed == Iterate(SignatureNames(old_signatures) \ SignatureNames(new_signatures), order)
    IN  [i \in 1..Len(changed) |->
            [file_path |-> file_path, change_type |-> "modified",
             category |-> "signature_change",
             description |-> <<"Function signature changed: ", changed[i]>>,
             lines_changed |-> 2, commit_hash |-> "", priority |-> High,
             old_value |-> <<changed[i], SignatureParams(old_signatures, changed[i])>>,
             new_value |-> <<changed[i], SignatureParams(new_signatures, changed[i])>>]]
        \o
        [i \in 1..Len(added) |->
            [file_path |-> file_path, change_type |-> "added",
             category |-> "new_function",
             description |-> <<"New function: ", added[i]>>,
             lines_changed |-> 1, commit_hash |-> "", priority |-> Medium,
             old_value |-> NoValue,
             new_value |-> <<added[i], SignatureParams(new_signatures, added[i])>>]]
        \o
        [i \in 1..Len(removed) |->
            [file_path |-> file_path, change_type |-> "deleted",
             category |-> "removed_function",
             description |-> <<"Function removed: ", removed[i]>>,
             lines_changed |-> 1, commit_hash |-> "", priority |-> High,
             old_value |-> <<removed[i], SignatureParams(old_signatures, removed[i])>>,
             new_value |-> NoValue]]

\* _analyze_file_diff(file_path, diff_content, change_type, commit_hash, ...)
_analyze_file_diff(file_path, lines, change_type, commit_hash, order) ==
    LET added_lines == Cardinality({i \in 1..Len(lines) : lines[i] \in AddedLines})
        removed_lines == Cardinality({i \in 1..Len(lines) : lines[i] \in RemovedLines})
        lines_changed == added_lines + removed_lines
        priority == _get_priority_by_path(file_path)
        signature_changes == _analyze_signature_changes(lines, file_path, order)
        stamped == [i \in 1..Len(signature_changes) |->
                       [signature_changes[i] EXCEPT !.commit_hash = commit_hash]]
        Matches(category, k) ==
            Concat([i \in 1..Len(lines) |-> PatternFindall(category, k, lines[i])])
        Found(category, k) ==
            LET matches == Matches(category, k)
            IN  [m \in 1..Len(matches) |->
                    [file_path |-> file_path, change_type |-> change_type,
                     category |-> category,
                     description |-> <<category, matches[m]>>,
                     lines_changed |-> lines_changed, commit_hash |-> commit_hash,
                     priority |-> _adjust_priority(priority, category),
                     old_value |-> NoValue, new_value |-> NoValue]]
        matched == Concat([c \in 1..Len(PATTERNS) |->
                       Concat([k \in 1..PATTERNS[c].patterns |->
                           Found(PATTERNS[c].category, k)])])
        changes == stamped \o matched
    IN  IF changes = <<>> /\ priority # Low /\ lines_changed > 10
        THEN <<[file_path |-> file_path, change_type |-> change_type,
                category |-> "general",
                description |-> <<"Significant changes in ", "">>,
                lines_changed |-> lines_changed, commit_hash |-> commit_hash,
                priority |-> priority,
                old_value |-> NoValue, new_value |-> NoValue]>>
        ELSE changes

\* _analyze_commit_message(commit): None given as <<>>
_analyze_commit_message(commit) ==
    LET type == CommitType(commit.message)
    IN  IF type = "none" THEN <<>>
        ELSE <<[hash |-> commit.hash, message |-> commit.message, type |-> type,
                priority |-> CASE type \in {"breaking", "feature", "api", "deprecate"} -> High
                               [] type \in {"fix", "config", "perf"} -> Medium
                               [] OTHER -> Low,
                doc_required |-> type \in {"feature", "breaking", "api", "deprecate", "config"}]>>

\* Analyzer_generate_summary(changes, commit_analysis)
Analyzer_generate_summary(changes, commit_analysis) ==
    LET Count(P(_), s) == Cardinality({i \in 1..Len(s) : P(s[i])})
    IN  [total_changes |-> Len(changes),
         by_priority |-> [high |-> Count(LAMBDA c : c.priority = High, changes),
                          medium |-> Count(LAMBDA c : c.priority = Medium, changes),
                          low |-> Count(LAMBDA c : c.priority = Low, changes)],
         files_affected |-> Cardinality({changes[i].file_path : i \in 1..Len(changes)}),
         commits_analyzed |-> Len(commit_analysis),
         commits_requiring_docs |-> Count(LAMBDA c : c.doc_required, commit_analysis),
         breaking_changes |-> Count(LAMBDA c : c.type = "breaking", commit_analysis),
         new_features |-> Count(LAMBDA c : c.type = "feature", commit_analysis)]

----------------------------------------------------------------------------
(* git as the analyzer sees it                                             *)

GitCall(cmd, commit, path) == [cmd |-> cmd, commit |-> commit, path |-> path]

NoPath == <<>>

\* the file_path of a --name-status line: parts[-1]
ListedPath(file) == file.paths[Len(file.paths)]

AllFiles(commits) == Concat([i \in 1..Len(commits) |-> commits[i].files])

FileAt(commits, path) ==
    LET files == AllFiles(commits)
    IN  files[CHOOSE i \in 1..Len(files) : ListedPath(files[i]) = path]

CommitAt(commits, hash) == commits[CHOOSE i \in 1..Len(commits) : commits[i].hash = hash]

NameStatus(files) == [i \in 1..Len(files) |-> [status |-> files[i].status, paths |-> files[i].paths]]

\* what git writes to stdout when the call exits with 0
GitStdout(commits, call) ==
    CASE call.cmd = "log" ->
            [i \in 1..Len(commits) |->
                [hash |-> commits[i].hash, message |-> commits[i].message]]
      [] call.cmd = "diff-tree" -> NameStatus(CommitAt(commits, call.commit).files)
      [] call.cmd = "diff --name-status" -> NameStatus(AllFiles(commits))
      [] call.cmd \in {"show", "diff"} -> FileAt(commits, call.path).diff

\* whether the bytes git writes are text in the locale's encoding (UTF-8)
Decodable(commits, call) ==
    call.cmd \in {"show", "diff"} => FileAt(commits, call.path).encoding = "utf-8"

\* _run_git(args): subprocess.run(['git'] + args, capture_output=True, text=True, check=True)
_run_git(git, call) ==
    IF ~git.installed THEN [raised |-> TRUE, exception |-> "RuntimeError"]
    ELSE IF call \in git.failing THEN [raised |-> FALSE, stdout |-> <<>>]
    ELSE IF ~Decodable(git.commits, call)
         THEN [raised |-> TRUE, exception |-> "UnicodeDecodeError"]
    ELSE [raised |-> FALSE, stdout |-> GitStdout(git.commits, call)]

\* the outcome of steps run one after another: the first exception, or all the changes
InOrder(steps) ==
    LET raising == {i \in 1..Len(steps) : steps[i].raised}
    IN  IF raising # {} THEN [raised |-> TRUE, exception |-> steps[Min(raising)].exception]
        ELSE [raised |-> FALSE, changes |-> Concat([i \in 1..Len(steps) |-> steps[i].changes])]

\* the loop over the lines of a --name-status listing, common to _analyze_commit
\* and analyze_diff
AnalyzeListing(git, listing, content_cmd, commit_hash, order) ==
    InOrder([i \in 1..Len(listing) |->
        LET file_path == listing[i].paths[Len(listing[i].paths)]
        IN  IF _should_ignore(file_path) THEN [raised |-> FALSE, changes |-> <<>>]
            ELSE LET file_diff == _run_git(git, GitCall(content_cmd, commit_hash, file_path))
                 IN  IF file_diff.raised THEN file_diff
                     ELSE [raised |-> FALSE,
                           changes |-> _analyze_file_diff(file_path, file_diff.stdout,
                                           _map_status(listing[i].status), commit_hash, order)]])

\* _analyze_commit(commit)
_analyze_commit(git, commit, order) ==
    LET diff_output == _run_git(git, GitCall("diff-tree", commit.hash, NoPath))
    IN  IF diff_output.raised THEN diff_output
        ELSE AnalyzeListing(git, diff_output.stdout, "show", commit.hash, order)

Returned(changes, commit_analysis) ==
    [state |-> "returned", changes |-> changes, commit_analysis |-> commit_analysis,
     summary |-> Analyzer_generate_summary(changes, commit_analysis)]

Raised(exception) == [state |-> "raised", exception |-> exception]

\* analyze_commits(): _get_commits, then the loop over the commits
analyze_commits(git, order) ==
    LET output == _run_git(git, GitCall("log", "", NoPath))
    IN  IF output.raised THEN Raised(output.exception)
        ELSE LET commits == output.stdout
                 analysed == InOrder([i \in 1..Len(commits) |->
                                 _analyze_commit(git, commits[i], order)])
             IN  IF analysed.raised THEN Raised(analysed.exception)
                 ELSE Returned(analysed.changes,
                               Concat([i \in 1..Len(commits) |->
                                   _analyze_commit_message(commits[i])]))

\* analyze_diff(base, head)
analyze_diff(git, order) ==
    LET log_output == _run_git(git, GitCall("log", "", NoPath))
    IN  IF log_output.raised THEN Raised(log_output.exception)
        ELSE LET diff_output == _run_git(git, GitCall("diff --name-status", "", NoPath))
             IN  IF diff_output.raised THEN Raised(diff_output.exception)
                 ELSE LET analysed == AnalyzeListing(git, diff_output.stdout, "diff", "", order)
                      IN  IF analysed.raised THEN Raised(analysed.exception)
                          ELSE Returned(analysed.changes,
                                        Concat([i \in 1..Len(log_output.stdout) |->
                                            _analyze_commit_message(log_output.stdout[i])]))

----------------------------------------------------------------------------
(* The repositories and the runs of the analyzer                           *)

ApiPath == <<"s", "r", "c", "/", "a", "p", "i", "/", "u", "s", "e", "r", "s", ".", "p", "y">>
HelperPath == <<"s", "r", "c", "/", "u", "t", "i", "l", "s", "/", "h", "e", "l", "p", "e", "r", ".", "p", "y">>
TestsPath == <<"s", "r", "c", "/", "t", "e", "s", "t", "s", "/", "t", "e", "s", "t", "_", "u", "s", "e", "r", "s", ".", "p", "y">>
TestFilePath == <<"s", "r", "c", "/", "u", "s", "e", "r", "s", ".", "t", "e", "s", "t", ".", "j", "s">>
MinifiedPath == <<"d", "i", "s", "t", "/", "a", "p", "p", ".", "m", "i", "n", ".", "j", "s">>
LockPath == <<"y", "a", "r", "n", ".", "l", "o", "c", "k">>
OrdersPath == <<"l", "i", "b", "/", "a", "p", "i", "/", "o", "r", "d", "e", "r", "s", ".", "p", "y">>
VendoredPath == <<"n", "o", "d", "e", "_", "m", "o", "d", "u", "l", "e", "s", "/", "p", "k", "g", "/", "i", "n", "d", "e", "x", ".", "j", "s">>

Diffs ==
    {<<"-def foo(a):", "+def foo(a, b):">>,
     <<"-def foo(a):", "+def foo(a):">>,
     <<" return 1", "+def bar(a):">>,
     <<"-def foo(a):", "+x = 1">>,
     <<"-def foo(a):", "+def bar(a):">>,
     <<"-def foo(a):", "-def bar(a):", "+x = 1">>,
     <<"-export function foo(a) {", "+export function bar(a) {">>,
     <<"+app.get('/users', listUsers)", "+token = os.getenv('API_TOKEN')">>,
     <<"+@deprecated", "-def foo(a):">>,
     <<"+CREATE TABLE users", "+program.command('deploy')">>,
     <<"+x = 1">>,
     [i \in 1..11 |-> "+x = 1"]}

ChangedFile(status, paths, diff, encoding) ==
    [status |-> status, paths |-> paths, diff |-> diff, encoding |-> encoding]

\* the file of the first commit
FirstFiles ==
    {ChangedFile("M", <<path>>, diff, "utf-8") :
        path \in {ApiPath, HelperPath, TestsPath, TestFilePath, MinifiedPath, LockPath},
        diff \in Diffs}
    \cup {ChangedFile("M", <<ApiPath>>, <<"-def foo(a):", "+def foo(a, b):">>, "latin-1"),
          ChangedFile("A", <<HelperPath>>, <<" return 1", "+def bar(a):">>, "utf-8"),
          ChangedFile("D", <<HelperPath>>, <<"-def foo(a):", "-def bar(a):", "+x = 1">>, "utf-8"),
          ChangedFile("R100", <<MinifiedPath, HelperPath>>,
                      <<"+token = os.getenv('API_TOKEN')">>, "utf-8"),
          ChangedFile("T", <<TestsPath>>, <<"+@deprecated", "-def foo(a):">>, "utf-8")}

Commit(hash, message, files) == [hash |-> hash, message |-> message, files |-> files]

\* the commits that may follow the first one
LaterCommits ==
    {Commit("c2", "fix!: drop foo",
            <<ChangedFile("M", <<OrdersPath>>, <<"-def foo(a):", "+x = 1">>, "utf-8")>>),
     Commit("c3", "update readme",
            <<ChangedFile("M", <<VendoredPath>>,
                          <<"+app.get('/users', listUsers)", "+token = os.getenv('API_TOKEN')">>,
                          "latin-1")>>)}

MaxCommits == 2     \* commits in the analysed range

Histories ==
    {<<Commit("c1", "feat: add users", <<first>>)>> \o later :
        first \in FirstFiles,
        later \in {s \in SeqsUpTo(LaterCommits, MaxCommits - 1) :
                      \A i, j \in 1..Len(s) : s[i] = s[j] => i = j}}

\* the git calls a run of the entry point can make on these commits
GitCalls(entry, commits) ==
    {GitCall("log", "", NoPath)}
    \cup (IF entry = "analyze_commits"
          THEN {GitCall("diff-tree", commits[i].hash, NoPath) : i \in 1..Len(commits)}
               \cup UNION {{GitCall("show", commits[i].hash, ListedPath(commits[i].files[k])) :
                               k \in 1..Len(commits[i].files)} : i \in 1..Len(commits)}
          ELSE {GitCall("diff --name-status", "", NoPath)}
               \cup {GitCall("diff", "", ListedPath(AllFiles(commits)[k])) :
                        k \in 1..Len(AllFiles(commits))})

\* the names the signature expressions can capture from DiffLines
NameUniverse == <<"bar", "export ", "foo">>

NameOrders ==
    {[i \in 1..Len(NameUniverse) |-> NameUniverse[p[i]]] : p \in Orderings(Len(NameUniverse))}

CaInit ==
    /\ ca_entry \in {"analyze_commits", "analyze_diff"}
    /\ \E commits \in Histories :
          \/ /\ \E failing \in SUBSET GitCalls(ca_entry, commits) :
                   ca_git = [installed |-> TRUE, failing |-> failing, commits |-> commits]
             /\ ca_order = NameUniverse
          \/ /\ ca_git = [installed |-> TRUE, failing |-> {}, commits |-> commits]
             /\ ca_order \in NameOrders
          \/ /\ Len(commits) = 1
             /\ ca_git = [installed |-> FALSE, failing |-> {}, commits |-> commits]
             /\ ca_order = NameUniverse
    /\ ca_result = [state |-> "none"]

\* result = analyzer.analyze_commits(...)
AnalyzeCommits ==
    /\ ca_entry = "analyze_commits"
    /\ ca_result.state = "none"
    /\ ca_result' = analyze_commits(ca_git, ca_order)
    /\ UNCHANGED <<ca_git, ca_entry, ca_order>>

\* result = analyzer.analyze_diff(base, head)
AnalyzeDiff ==
    /\ ca_entry = "analyze_diff"
    /\ ca_result.state = "none"
    /\ ca_result' = analyze_diff(ca_git, ca_order)
    /\ UNCHANGED <<ca_git, ca_entry, ca_order>>

InitAnalyzer == CaInit /\ AggIdle /\ hashOrder = <<>> /\ DdIdle /\ DcIdle /\ DriftIdle
    /\ SlaIdle /\ FmIdle /\ SqIdle /\ CcIdle /\ BgIdle /\ AlIdle /\ DodIdle /\ SmIdle
    /\ CliIdle

NextAnalyzer ==
    \/ /\ AnalyzeCommits
       /\ UNCHANGED <<aggVars, ddVars, dcVars, driftVars, slaVars, fmVars, sqVars, ccVars, bgVars
                     , alVars, dodVars, smVars, cliVars>>
    \/ /\ AnalyzeDiff
       /\ UNCHANGED <<aggVars, ddVars, dcVars, driftVars, slaVars, fmVars, sqVars, ccVars, bgVars
                     , alVars, dodVars, smVars, cliVars>>

SpecAnalyzer == InitAnalyzer /\ [][NextAnalyzer]_vars

----------------------------------------------------------------------------
(* Properties of the code change analyzer                                  *)

AnalyzerDone == ca_result.state # "none"

AnalyzerReturned == ca_result.state = "returned"

\* s with some elements left out
RECURSIVE IsSubsequence(_, _)
IsSubsequence(s, t) ==
    IF s = <<>> THEN TRUE
    ELSE IF t = <<>> THEN FALSE
    ELSE IF s[1] = t[1] THEN IsSubsequence(Tail(s), Tail(t))
    ELSE IsSubsequence(s, Tail(t))

\* the same run with every git call succeeding
WithoutFailures ==
    LET git == [ca_git EXCEPT !.failing = {}]
    IN  IF ca_entry = "analyze_commits" THEN analyze_commits(git, ca_order)
        ELSE analyze_diff(git, ca_order)

\* C17 (as stated): with git installed, analyze_commits and analyze_diff never
\* raise, whichever subset of their git calls fails: they return an
\* AnalysisResult.
C17_NeverRaisesWithGitInstalled ==
    (AnalyzerDone /\ ca_git.installed) => AnalyzerReturned

\* what holds: without git the run raises RuntimeError; with git, and every
\* file diff that is read being UTF-8 text, the run returns, and its changes
\* are changes of the run in which no call fails, in the same order
C17_FailedCallsGiveFewerChanges ==
    AnalyzerDone =>
        /\ ~ca_git.installed => ca_result = Raised("RuntimeError")
        /\ (ca_git.installed /\ WithoutFailures.state = "returned") =>
              /\ AnalyzerReturned
              /\ IsSubsequence(ca_result.changes, WithoutFailures.changes)

\* a failing git call made the result smaller
C17_WitnessFewerChanges ==
    /\ AnalyzerReturned
    /\ ca_git.failing # {}
    /\ WithoutFailures.state = "returned"
    /\ Len(ca_result.changes) < Len(WithoutFailures.changes)
    /\ ca_result.changes # <<>>

\* an exception other than the one for a missing git executable
C17_WitnessDecodeError == ca_result = Raised("UnicodeDecodeError")

\* an entry of the ignore list with the wildcards at its ends taken off
RECURSIVE StripStars(_)
StripStars(entry) ==
    IF entry # <<>> /\ entry[1] = "*" THEN StripStars(Tail(entry))
    ELSE IF entry # <<>> /\ entry[Len(entry)] = "*"
         THEN StripStars(SubSeq(entry, 1, Len(entry) - 1))
    ELSE entry

\* the path matches an entry of the ignore list, read as a glob
MatchesIgnoreList(file_path) ==
    \E k \in 1..Len(IGNORE_PATHS) : Contains(file_path, StripStars(IGNORE_PATHS[k]))

\* C18 (as stated): no CodeChange returned by analyze_commits or analyze_diff
\* has a file_path that matches an entry of the ignore list.
C18_NoChangeOnIgnoredPath ==
    AnalyzerReturned =>
        \A i \in 1..Len(ca_result.changes) : ~MatchesIgnoreList(ca_result.changes[i].file_path)

\* what holds: no change has a path in which an entry is found as written,
\* less a leading '*' only
C18_NoChangeOnPathWithEntryInside ==
    AnalyzerReturned =>
        \A i \in 1..Len(ca_result.changes) : ~_should_ignore(ca_result.changes[i].file_path)

\* a listed file was skipped although its diff has lines the patterns match
C18_WitnessSkipped ==
    /\ AnalyzerReturned
    /\ \E k \in 1..Len(AllFiles(ca_git.commits)) :
          LET file == AllFiles(ca_git.commits)[k]
          IN  /\ _should_ignore(ListedPath(file))
              /\ _analyze_file_diff(ListedPath(file), file.diff, "modified", "", ca_order) # <<>>
    /\ ca_git.failing = {}

EscalatedCategories ==
    {"breaking_change", "api_endpoint", "cli_command", "signature_change",
     "removed_function", "authentication", "database_schema"}

\* C19: every CodeChange of an AnalysisResult whose category is breaking_change,
\* api_endpoint, cli_command, signature_change, removed_function,
\* authentication or database_schema has priority high, whatever the base
\* priority of its file's path.
C19_EscalatedCategoriesAreHigh ==
    AnalyzerReturned =>
        \A i \in 1..Len(ca_result.changes) :
            ca_result.changes[i].category \in EscalatedCategories =>
                ca_result.changes[i].priority = High

\* an authentication change and a removed function in a file of low base
\* priority, both at high, next to a change that kept the low base priority
C19_Witness ==
    /\ AnalyzerReturned
    /\ \E i, j, k \in 1..Len(ca_result.changes) :
          /\ _get_priority_by_path(ca_result.changes[i].file_path) = Low
          /\ ca_result.changes[i].category = "authentication"
          /\ ca_result.changes[i].priority = High
          /\ ca_result.changes[j].file_path = ca_result.changes[i].file_path
          /\ ca_result.changes[j].category = "env_var"
          /\ ca_result.changes[j].priority = Low
          /\ ca_result.changes[k].category \in {"removed_function", "breaking_change"}
          /\ ca_result.changes[k].priority = High

\* a medium-priority file's escalated change
C19_WitnessMedium ==
    /\ AnalyzerReturned
    /\ \E i \in 1..Len(ca_result.changes) :
          /\ _get_priority_by_path(ca_result.changes[i].file_path) = Medium
          /\ ca_result.changes[i].category = "signature_change"
          /\ ca_result.changes[i].priority = High

\* the function a line of DiffLines declares
Declares(line) ==
    CASE line = "-def foo(a):" -> <<[sign |-> "-", name |-> "foo", params |-> "a", exported |-> FALSE]>>
      [] line = "-def bar(a):" -> <<[sign |-> "-", name |-> "bar", params |-> "a", exported |-> FALSE]>>
      [] line = "+def foo(a, b):" -> <<[sign |-> "+", name |-> "foo", params |-> "a, b", exported |-> FALSE]>>
      [] line = "+def foo(a):" -> <<[sign |-> "+", name |-> "foo", params |-> "a", exported |-> FALSE]>>
      [] line = "+def bar(a):" -> <<[sign |-> "+", name |-> "bar", params |-> "a", exported |-> FALSE]>>
      [] line = "-export function foo(a) {" -> <<[sign |-> "-", name |-> "foo", params |-> "a", exported |-> TRUE]>>
      [] line = "+export function bar(a) {" -> <<[sign |-> "+", name |-> "bar", params |-> "a", exported |-> TRUE]>>
      [] OTHER -> <<>>

Declarations(lines) == Concat([i \in 1..Len(lines) |-> Declares(lines[i])])

\* the files the run gave to the signature pass, each with the diff git printed
FilesRead ==
    LET files == AllFiles(ca_git.commits)
        cmd == IF ca_entry = "analyze_commits" THEN "show" ELSE "diff"
        HashOf(path) ==
            IF ca_entry = "analyze_diff" THEN ""
            ELSE ca_git.commits[CHOOSE c \in 1..Len(ca_git.commits) :
                     \E k \in 1..Len(ca_git.commits[c].files) :
                         ListedPath(ca_git.commits[c].files[k]) = path].hash
    IN  {[path |-> ListedPath(files[k]),
          lines |-> _run_git(ca_git, GitCall(cmd, HashOf(ListedPath(files[k])),
                                             ListedPath(files[k]))).stdout] :
            k \in {k \in 1..Len(files) :
                      /\ ~_should_ignore(ListedPath(files[k]))
                      /\ IF ca_entry = "analyze_diff"
                         THEN GitCall("diff --name-status", "", NoPath) \notin ca_git.failing
                         ELSE /\ GitCall("log", "", NoPath) \notin ca_git.failing
                              /\ GitCall("diff-tree", HashOf(ListedPath(files[k])), NoPath)
                                     \notin ca_git.failing}}

SignatureCategories == {"signature_change", "new_function", "removed_function"}

\* the categories of the signature changes emitted for one function of one file
EmittedFor(path, name) ==
    LET hits == {i \in 1..Len(ca_result.changes) :
                    /\ ca_result.changes[i].file_path = path
                    /\ ca_result.changes[i].category \in SignatureCategories
                    /\ ca_result.changes[i].description[2] = name}
    IN  [count |-> Cardinality(hits),
         categories |-> {ca_result.changes[i].category : i \in hits}]

\* what the rule of the claim asks for one function name of one diff
Expected(lines, name) ==
    LET decls == Declarations(lines)
        removed == {decls[i].params : i \in {i \in 1..Len(decls) :
                                                decls[i].name = name /\ decls[i].sign = "-"}}
        added == {decls[i].params : i \in {i \in 1..Len(decls) :
                                              decls[i].name = name /\ decls[i].sign = "+"}}
    IN  IF removed # {} /\ added # {}
        THEN IF removed # added THEN {"signature_change"} ELSE {}
        ELSE IF added # {} THEN {"new_function"}
        ELSE {"removed_function"}

PairedAsStated(file) ==
    LET decls == Declarations(file.lines)
    IN  \A d \in 1..Len(decls) :
            /\ EmittedFor(file.path, decls[d].name).count <= 1
            /\ EmittedFor(file.path, decls[d].name).categories = Expected(file.lines, decls[d].name)

\* C20 (as stated): for each function name of one file diff the signature pass
\* emits at most one change: signature_change iff the name is on a removed and
\* on an added line with different parameters, new_function iff it is on added
\* lines only, removed_function iff it is on removed lines only, and nothing
\* iff it is on both with identical parameters.
C20_OneChangePerFunctionName ==
    AnalyzerReturned => \A file \in FilesRead : PairedAsStated(file)

\* what holds: the rule, for the diffs none of whose declarations is exported
C20_PlainDeclarationsPaired ==
    AnalyzerReturned =>
        \A file \in FilesRead :
            (\A d \in 1..Len(Declarations(file.lines)) : ~Declarations(file.lines)[d].exported)
                => PairedAsStated(file)

\* a changed signature, and a file with a new and a removed function
C20_WitnessPaired ==
    /\ AnalyzerReturned
    /\ \E file \in FilesRead :
          /\ Declarations(file.lines) # <<>>
          /\ PairedAsStated(file)
          /\ EmittedFor(file.path, "foo").categories = {"signature_change"}

----------------------------------------------------------------------------
(* The batch document generator (scripts/gap_detection/batch_generator.py)  *)
(*                                                                         *)
(* A template is a sequence of pieces of text, a placeholder being one     *)
(* piece.  The file system is the set of template files, the documents     *)
(* written so far and the prompt file; the external tool is given by what  *)
(* subprocess.run does when it is started.                                 *)

TEMPLATE_MAP ==
    <<[doc_type |-> "tutorial", template |-> "tutorial.md"],
      [doc_type |-> "how-to", template |-> "how-to.md"],
      [doc_type |-> "concept", template |-> "concept.md"],
      [doc_type |-> "reference", template |-> "reference.md"],
      [doc_type |-> "troubleshooting", template |-> "troubleshooting.md"],
      [doc_type |-> "quickstart", template |-> "quickstart.md"],
      [doc_type |-> "integration-guide", template |-> "integration-guide.md"],
      [doc_type |-> "faq", template |-> "faq.md"]>>

OUTPUT_DIRS ==
    <<[doc_type |-> "tutorial", directory |-> "docs/getting-started"],
      [doc_type |-> "how-to", directory |-> "docs/how-to"],
      [doc_type |-> "concept", directory |-> "docs/concepts"],
      [doc_type |-> "reference", directory |-> "docs/reference"],
      [doc_type |-> "troubleshooting", directory |-> "docs/troubleshooting"],
      [doc_type |-> "quickstart", directory |-> "docs/getting-started"],
      [doc_type |-> "integration-guide", directory |-> "docs/how-to"],
      [doc_type |-> "faq", directory |-> "docs/reference"]>>

\* table.get(doc_type, default)
GetOr(table, field, doc_type, default) ==
    LET hits == {i \in 1..Len(table) : table[i].doc_type = doc_type}
    IN  IF hits = {} THEN default ELSE table[Min(hits)][field]

GapTitles ==
    {"Webhook: Retry policy",
     "CODE-0001: Retry policy",
     "How to rotate API keys?",
     "Error: 401 on login"}

\* _slugify(text), on the titles of GapTitles
_slugify(title) ==
    CASE title = "Webhook: Retry policy" -> "retry-policy"
      [] title = "CODE-0001: Retry policy" -> "retry-policy"
      [] title = "How to rotate API keys?" -> "how-to-rotate-api-keys"
      [] title = "Error: 401 on login" -> "401-on-login"

\* _clean_title(title), on the titles of GapTitles
Batch_clean_title(title) ==
    CASE title = "Webhook: Retry policy" -> "Retry policy"
      [] title = "CODE-0001: Retry policy" -> "Retry policy"
      [] title = "How to rotate API keys?" -> "How to rotate API keys?"
      [] title = "Error: 401 on login" -> "401 on login"

\* f'DOC-{index:03d}'
DocId(index) ==
    LET d == DecStr(index)
    IN  <<"DOC-">> \o (IF Len(d) >= 3 THEN d ELSE [i \in 1..(3 - Len(d)) |-> "0"] \o d)

\* _create_task_from_gap(gap, index)
_create_task_from_gap(gap, index) ==
    LET doc_type == gap.suggested_doc_type
        template_name == GetOr(TEMPLATE_MAP, "template", doc_type, "how-to.md")
        output_dir == GetOr(OUTPUT_DIRS, "directory", doc_type, "docs/how-to")
    IN  [id |-> DocId(index),
         gap_id |-> gap.id,
         title |-> gap.title,
         doc_type |-> doc_type,
         category |-> gap.category,
         priority |-> gap.priority,
         output_path |-> <<output_dir, "/", _slugify(gap.title), ".md">>,
         template_name |-> template_name,
         context |-> [title |-> Batch_clean_title(gap.title), category |-> gap.category],
         status |-> "pending"]

\* the heading lines _generate_claude_prompt writes, one per task
_generate_claude_prompt(tasks) ==
    [i \in 1..Len(tasks) |-> <<"### ">> \o tasks[i].id \o <<": ", tasks[i].title>>]

NoFilter == [given |-> FALSE, priorities |-> <<>>]

Filter(priorities) == [given |-> TRUE, priorities |-> priorities]

\* a filter that is used as given when it is an empty list
EffectiveFilter_EmptyKept(priority_filter) ==
    IF priority_filter.given THEN priority_filter.priorities ELSE <<High, Medium>>

\* priority_filter or ['high', 'medium']
EffectiveFilter(priority_filter) ==
    IF priority_filter.given /\ priority_filter.priorities # <<>>
    THEN priority_filter.priorities ELSE <<High, Medium>>

\* create_batch_from_report(report, max_tasks, priority_filter)
create_batch_from_report(gaps, max_tasks, priority_filter) ==
    LET filter == EffectiveFilter(priority_filter)
        filtered_gaps == SelectSeq(gaps, LAMBDA g : \E k \in 1..Len(filter) : g.priority = filter[k])
        selected_gaps == Prefix(filtered_gaps, max_tasks)
        tasks == [i \in 1..Len(selected_gaps) |-> _create_task_from_gap(selected_gaps[i], i)]
    IN  [tasks |-> tasks, generated_files |-> <<>>, errors |-> <<>>,
         claude_prompt |-> _generate_claude_prompt(tasks)]

TemplateText == <<"# ", "[Title]", " for ", "[Product]", ", ", "[product]", ", ", "[PRODUCT]">>

\* the four content.replace calls
FillTemplate(template, title) ==
    [i \in 1..Len(template) |->
        CASE template[i] = "[Title]" -> title
          [] template[i] = "[Product]" -> "n8n"
          [] template[i] = "[product]" -> "n8n"
          [] template[i] = "[PRODUCT]" -> "N8N"
          [] OTHER -> template[i]]

\* open(output_path, 'w').write(content)
WriteDocument(documents, path, content) ==
    SelectSeq(documents, LAMBDA d : d.path # path) \o <<[path |-> path, content |-> content]>>

Completed(fs) == [raised |-> FALSE, fs |-> fs]

Failed(exception, fs) == [raised |-> TRUE, exception |-> exception, fs |-> fs]

\* _generate_from_template(task)
_generate_from_template(task, env, fs) ==
    IF task.template_name \notin env.templates THEN Failed("FileNotFoundError", fs)
    ELSE IF ~env.writable THEN Failed("PermissionError", fs)
    ELSE Completed([fs EXCEPT !.documents =
             WriteDocument(fs.documents, task.output_path,
                           FillTemplate(TemplateText, task.context.title))])

\* a handler that lets FileNotFoundError pass
_generate_with_claude_NoFallback(task, env, fs) ==
    IF ~env.writable THEN Failed("PermissionError", fs)
    ELSE LET prompted == [fs EXCEPT !.prompt_file = TRUE]
             ran == CASE env.tool = "missing" -> Failed("FileNotFoundError", prompted)
                      [] env.tool = "nonzero" -> Failed("RuntimeError", prompted)
                      [] env.tool = "timeout" -> Failed("TimeoutExpired", prompted)
                      [] OTHER -> Completed(prompted)
         IN  [ran EXCEPT !.fs.prompt_file = FALSE]

\* _generate_with_claude(task): the prompt file, subprocess.run, the fallback
\* in `except FileNotFoundError`, and prompt_file.unlink() in `finally`
_generate_with_claude(task, env, fs) ==
    IF ~env.writable THEN Failed("PermissionError", fs)
    ELSE LET prompted == [fs EXCEPT !.prompt_file = TRUE]
             ran == CASE env.tool = "missing" -> _generate_from_template(task, env, prompted)
                      [] env.tool = "nonzero" -> Failed("RuntimeError", prompted)
                      [] env.tool = "timeout" -> Failed("TimeoutExpired", prompted)
                      [] OTHER -> Completed(prompted)
         IN  [ran EXCEPT !.fs.prompt_file = FALSE]

\* a loop that an exception leaves
RECURSIVE GenerateFrom_StopAtFailure(_, _, _, _, _)
GenerateFrom_StopAtFailure(batch, from, use_claude, env, fs) ==
    IF from > Len(batch.tasks) THEN [batch |-> batch, fs |-> fs]
    ELSE LET task == batch.tasks[from]
             done == IF use_claude THEN _generate_with_claude(task, env, fs)
                     ELSE _generate_from_template(task, env, fs)
         IN  IF done.raised THEN [batch |-> batch, fs |-> done.fs]
             ELSE GenerateFrom_StopAtFailure(
                      [batch EXCEPT !.tasks[from].status = "generated",
                                    !.generated_files = Append(@, task.output_path)],
                      from + 1, use_claude, env, done.fs)

\* generate_documents(batch, use_claude): the loop, from task `from` on
RECURSIVE GenerateFrom(_, _, _, _, _)
GenerateFrom(batch, from, use_claude, env, fs) ==
    IF from > Len(batch.tasks) THEN [batch |-> batch, fs |-> fs]
    ELSE LET task == batch.tasks[from]
             done == IF use_claude THEN _generate_with_claude(task, env, fs)
                     ELSE _generate_from_template(task, env, fs)
             after ==
                 IF done.raised
                 THEN [batch EXCEPT !.tasks[from].status = "error",
                                    !.errors = Append(@, [task |-> task.id,
                                                          exception |-> done.exception])]
                 ELSE [batch EXCEPT !.tasks[from].status = "generated",
                                    !.generated_files = Append(@, task.output_path)]
         IN  GenerateFrom(after, from + 1, use_claude, env, done.fs)

generate_documents(batch, use_claude, env, fs) == GenerateFrom(batch, 1, use_claude, env, fs)

MaxGaps == 3        \* gaps in the report
MaxTasks == 3       \* the largest max_tasks

\* the gaps a report is made of: priority, suggested_doc_type, title
GapKinds ==
    {<<High, "how-to", "Webhook: Retry policy">>,
     <<Medium, "integration-guide", "CODE-0001: Retry policy">>,
     <<Low, "how-to", "How to rotate API keys?">>,
     <<High, "glossary", "Error: 401 on login">>}

\* the gap of one kind at one position of the report
GapOf(kind, position) ==
    [id |-> <<"GAP-">> \o Format04d(position), title |-> kind[3], category |-> "webhook",
     priority |-> kind[1], suggested_doc_type |-> kind[2]]

Reports ==
    {[i \in 1..Len(kinds) |-> GapOf(kinds[i], i)] : kinds \in SeqsUpTo(GapKinds, MaxGaps)}

PriorityFilters ==
    {NoFilter, Filter(<<>>), Filter(<<High>>), Filter(<<High, Medium>>), Filter(<<Low>>)}

Env(use_claude, tool, templates, writable) ==
    [use_claude |-> use_claude, tool |-> tool, templates |-> templates, writable |-> writable]

AllTemplates == {"how-to.md", "integration-guide.md"}

\* the templates directory, the output directory and the tool of one run
Envs ==
    {Env(FALSE, "unused", templates, TRUE) : templates \in SUBSET AllTemplates}
    \cup {Env(TRUE, "missing", templates, TRUE) : templates \in SUBSET AllTemplates}
    \cup {Env(TRUE, tool, AllTemplates, TRUE) : tool \in {"ok", "nonzero", "timeout"}}
    \cup {Env(FALSE, "unused", AllTemplates, FALSE), Env(TRUE, "missing", AllTemplates, FALSE)}

EmptyFs == [documents |-> <<>>, prompt_file |-> FALSE]

NoBatch == [tasks |-> <<>>, generated_files |-> <<>>, errors |-> <<>>, claude_prompt |-> <<>>]

NoEnv == Env(FALSE, "unused", {}, TRUE)

BgInit ==
    /\ bg_report \in Reports
    /\ bg_max_tasks \in 0..MaxTasks
    /\ bg_filter \in PriorityFilters
    /\ bg_env = NoEnv
    /\ bg_fs = EmptyFs
    /\ bg_batch = NoBatch
    /\ bg_before = NoBatch
    /\ bg_phase = "start"

\* batch = generator.create_batch_from_report(report, max_tasks, priority_filter)
CreateBatch ==
    /\ bg_phase = "start"
    /\ bg_batch' = create_batch_from_report(bg_report, bg_max_tasks, bg_filter)
    /\ bg_phase' = "created"
    /\ UNCHANGED <<bg_report, bg_max_tasks, bg_filter, bg_env, bg_fs, bg_before>>

\* batch = generator.generate_documents(batch, use_claude)
GenerateDocuments ==
    /\ bg_phase = "created"
    /\ \E env \in Envs :
          LET done == generate_documents(bg_batch, env.use_claude, env, bg_fs)
          IN  /\ bg_env' = env
              /\ bg_batch' = done.batch
              /\ bg_fs' = done.fs
    /\ bg_before' = bg_batch
    /\ bg_phase' = "generated"
    /\ UNCHANGED <<bg_report, bg_max_tasks, bg_filter>>

InitBatch == BgInit /\ AggIdle /\ hashOrder = <<>> /\ DdIdle /\ DcIdle /\ DriftIdle
    /\ SlaIdle /\ FmIdle /\ SqIdle /\ CcIdle /\ CaIdle /\ AlIdle /\ DodIdle /\ SmIdle
    /\ CliIdle

NextBatch ==
    \/ /\ CreateBatch
       /\ UNCHANGED <<aggVars, ddVars, dcVars, driftVars, slaVars, fmVars, sqVars, ccVars, caVars
                     , alVars, dodVars, smVars, cliVars>>
    \/ /\ GenerateDocuments
       /\ UNCHANGED <<aggVars, ddVars, dcVars, driftVars, slaVars, fmVars, sqVars, ccVars, caVars
                     , alVars, dodVars, smVars, cliVars>>

SpecBatch == InitBatch /\ [][NextBatch]_vars

----------------------------------------------------------------------------
(* Properties of the batch document generator                              *)

BatchCreated == bg_phase # "start"

\* the gaps of the report whose priority is in a list, in report order
GapsWithPriorityIn(priorities) ==
    SelectSeq(bg_report, LAMBDA g : \E k \in 1..Len(priorities) : g.priority = priorities[k])

\* the tasks are the first min(max_tasks, k) of the gaps, numbered from DOC-001
TasksAreFirstOf(gaps) ==
    /\ Len(bg_batch.tasks) = (IF bg_max_tasks < Len(gaps) THEN bg_max_tasks ELSE Len(gaps))
    /\ \A i \in 1..Len(bg_batch.tasks) :
          /\ bg_batch.tasks[i].gap_id = gaps[i].id
          /\ bg_batch.tasks[i].id = <<"DOC-", "0", "0", Digit(i)>>

\* C21 (as stated): create_batch_from_report returns exactly min(N, k) tasks,
\* k being the number of report gaps whose priority is in the filter; they are
\* the first such gaps in report order, numbered DOC-001, DOC-002, ... and
\* each carries its gap's id as gap_id.
C21_FirstMatchingGapsBecomeTasks ==
    BatchCreated =>
        TasksAreFirstOf(GapsWithPriorityIn(IF bg_filter.given THEN bg_filter.priorities
                                           ELSE <<High, Medium>>))

\* C21 (amended): the same, the filter being the list given or, when none or
\* an empty list is given, high and medium.
C21_FirstMatchingGapsOfEffectiveFilter ==
    BatchCreated =>
        TasksAreFirstOf(GapsWithPriorityIn(
            IF bg_filter.given /\ Len(bg_filter.priorities) > 0 THEN bg_filter.priorities
            ELSE <<High, Medium>>))

\* a gap outside the filter was passed over and max_tasks cut the list
C21_Witness ==
    /\ BatchCreated
    /\ Len(bg_batch.tasks) = 2
    /\ bg_max_tasks = 2
    /\ Len(GapsWithPriorityIn(<<High>>)) = 2
    /\ bg_filter = Filter(<<High>>)
    /\ bg_report[1].priority = Low

\* an empty list was given and the default filter applied
C21_WitnessEmptyFilter ==
    /\ BatchCreated
    /\ bg_filter = Filter(<<>>)
    /\ Len(bg_batch.tasks) = 2

Generated == bg_phase = "generated"

StatusOf(batch) == [i \in 1..Len(batch.tasks) |-> batch.tasks[i].status]

DocumentAt(fs, path) == \E d \in 1..Len(fs.documents) : fs.documents[d].path = path

\* the same batch generated from the templates, in the same directories
FromTemplates == generate_documents(bg_before, FALSE, bg_env, EmptyFs)

TasksWithStatus(batch, status) == SelectSeq(batch.tasks, LAMBDA t : t.status = status)

----------------------------------------------------------------------------
(* algolia_parser.AlgoliaAnalytics on an input file, and                   *)
(* GapAggregator.run_full_analysis                                         *)

MaxRows == 2        \* rows of the CSV export, items of the JSON file

ErrorText == <<"W", "e", "b", "h", "o", "o", "k", " ", "e", "r", "r", "o", "r">>
SetupText == <<"h", "o", "w", " ", "t", "o", " ", "s", "e", "t", "u", "p", " ", "O", "A", "u", "t", "h">>
PricingText == <<"p", "r", "i", "c", "i", "n", "g">>

\* a row of csv.DictReader under the header Search,Count,Results,CTR
CsvRow(search, count, results, ctr) ==
    [Search |-> search, Count |-> count, Results |-> results, CTR |-> ctr]

CsvRows ==
    {CsvRow(ErrorText, <<"1", "2">>, <<"0">>, "0%"),
     CsvRow(SetupText, <<"2", "5">>, <<"3">>, "5%"),
     CsvRow(PricingText, <<"7">>, <<>>, "n/a"),
     CsvRow(PricingText, <<"a", "b", "c">>, <<"0">>, "0%"),
     CsvRow(<<>>, <<"a", "b", "c">>, <<"0">>, "0%"),
     CsvRow(PricingText, <<"3", "0">>, <<"3">>, "50%"),
     CsvRow(SetupText, <<"6">>, <<"2">>, "0.05")}

\* an element of data['queries']; the rate is in percent
JsonItem(query, count, nbHits, clickThroughRate) ==
    [query |-> query, count |-> count, nbHits |-> nbHits,
     clickThroughRate |-> clickThroughRate]

JsonItems ==
    {JsonItem(ErrorText, IntValue(12), 0, 0),
     JsonItem(SetupText, IntValue(25), 3, 5),
     JsonItem(PricingText, StrValue(<<"a", "b", "c">>), 0, 0),
     JsonItem(<<>>, IntValue(5), 0, 0),
     JsonItem(PricingText, IntValue(3), 0, 0)}

\* an argument that was not given
NotGiven == [given |-> FALSE]

MissingFile == [given |-> TRUE, exists |-> FALSE]

CsvFile(rows) == [given |-> TRUE, exists |-> TRUE, rows |-> rows]

\* a file that json.load rejects
UnparsableJson == [given |-> TRUE, exists |-> TRUE, syntax |-> "invalid"]

\* a JSON text whose top level is a list
JsonArray == [given |-> TRUE, exists |-> TRUE, syntax |-> "valid", top |-> "array"]

JsonFile(queries) ==
    [given |-> TRUE, exists |-> TRUE, syntax |-> "valid", top |-> "object",
     queries |-> queries]

RECURSIVE DigitsValue(_)
DigitsValue(text) ==
    IF text = <<>> THEN 0
    ELSE 10 * DigitsValue(SubSeq(text, 1, Len(text) - 1)) + DigitValue(text[Len(text)])

\* int(cell or 0)
IntOfCell(cell) ==
    IF cell = <<>> THEN [raised |-> FALSE, value |-> 0]
    ELSE IF \A i \in 1..Len(cell) : IsDigit(cell[i])
         THEN [raised |-> FALSE, value |-> DigitsValue(cell)]
         ELSE [raised |-> TRUE, exception |-> "ValueError"]

\* the click-through rate of a CTR cell, in percent: '%' removed, float(),
\* divided by 100 when over 1, 0 when float() fails
CtrOf(cell) ==
    CASE cell = "0%" -> 0
      [] cell = "5%" -> 5
      [] cell = "0.05" -> 5
      [] cell = "50%" -> 50
      [] cell = "n/a" -> 0

NoQuery == [raised |-> FALSE, found |-> FALSE]

Parsed(query) == [raised |-> FALSE, found |-> TRUE, query |-> query]

InputError(exception) == [raised |-> TRUE, exception |-> exception]

_parse_csv_row(row) ==
    IF row.Search = <<>> THEN NoQuery
    ELSE LET count == IntOfCell(row.Count)
             results == IntOfCell(row.Results)
         IN  IF count.raised THEN InputError(count.exception)
             ELSE IF results.raised THEN InputError(results.exception)
             ELSE Parsed(_enrich_query(SearchQuery(row.Search, count.value, results.value,
                                                    CtrOf(row.CTR))))

\* the element of the JSON file as a SearchQuery: a count that is not a
\* number fails in the comparisons of _enrich_query or of _analyze_queries
QueryOfItem(item) ==
    IF item.query = <<>> THEN NoQuery
    ELSE IF item.count.kind # "int" THEN InputError("TypeError")
    ELSE Parsed(_enrich_query(SearchQuery(item.query, item.count.n, item.nbHits,
                                          item.clickThroughRate)))

\* the loop over the rows or the items: the first exception leaves it
RECURSIVE CollectQueries(_, _)
CollectQueries(parsed, queries) ==
    IF parsed = <<>> THEN [raised |-> FALSE, queries |-> queries]
    ELSE IF Head(parsed).raised THEN InputError(Head(parsed).exception)
    ELSE CollectQueries(Tail(parsed),
                        IF Head(parsed).found THEN Append(queries, Head(parsed).query)
                        ELSE queries)

\* list.sort(key=lambda x: x.count, reverse=True): stable, larger counts first
RECURSIVE SortedByCount(_)
SortedByCount(queries) ==
    IF queries = <<>> THEN <<>>
    ELSE LET rest == SortedByCount(SubSeq(queries, 1, Len(queries) - 1))
             last == queries[Len(queries)]
             before == SelectSeq(rest, LAMBDA q : q.count >= last.count)
             after == SelectSeq(rest, LAMBDA q : q.count < last.count)
         IN  before \o <<last>> \o after

\* f'{rate:.1%}' for a rate of whole percents
Format1Percent(percent) == DecStr(percent) \o <<".0%">>

\* the dictionary appended for a query of low_ctr_queries
LowCtrSuggestion(query) ==
    [query |-> query.query, reason |-> <<"low_ctr">>, search_count |-> query.count,
     suggested_doc_type |-> <<query.suggested_doc_type>>, category |-> <<query.category>>,
     priority |-> <<"medium">>,
     action |-> <<"Improve documentation for: ", "\"">> \o query.query
                   \o <<"\"", " (CTR: ">> \o Format1Percent(query.click_through_rate) \o <<")">>]

\* the dictionary appended for a query of no_results_queries
NoResultsSuggestion(query) ==
    [query |-> query.query, reason |-> <<"no_results">>, search_count |-> query.count,
     suggested_doc_type |-> <<query.suggested_doc_type>>, category |-> <<query.category>>,
     priority |-> <<query.priority>>,
     action |-> <<"Create ", query.suggested_doc_type, " document for: ", "\"">>
                   \o query.query \o <<"\"">>]

_generate_suggestions(result) ==
    LET no_results == Prefix(result.no_results_queries, 20)
        low_ctr == Prefix(result.low_ctr_queries, 10)
    IN  [i \in 1..Len(no_results) |-> NoResultsSuggestion(no_results[i])]
            \o [i \in 1..Len(low_ctr) |-> LowCtrSuggestion(low_ctr[i])]

_analyze_queries(queries) ==
    LET result ==
            [no_results_queries |->
                 SortedByCount(SelectSeq(queries, LAMBDA q : q.results_count = 0)),
             low_ctr_queries |->
                 SortedByCount(SelectSeq(queries, LAMBDA q :
                     q.results_count # 0 /\ q.click_through_rate < 10 /\ q.count >= 5)),
             popular_queries |->
                 SortedByCount(SelectSeq(queries, LAMBDA q : q.count >= 10))]
    IN  [raised |-> FALSE, queries |-> queries, result |-> result,
         suggested_docs |-> _generate_suggestions(result)]

analyze_from_csv(file) ==
    IF ~file.exists THEN InputError("FileNotFoundError")
    ELSE LET read == CollectQueries([i \in 1..Len(file.rows) |-> _parse_csv_row(file.rows[i])],
                                    <<>>)
         IN  IF read.raised THEN read ELSE _analyze_queries(read.queries)

analyze_from_json(file) ==
    IF ~file.exists THEN InputError("FileNotFoundError")
    ELSE IF file.syntax = "invalid" THEN InputError("JSONDecodeError")
    ELSE IF file.top # "object" THEN InputError("AttributeError")
    ELSE LET read == CollectQueries([i \in 1..Len(file.queries) |-> QueryOfItem(file.queries[i])],
                                    <<>>)
         IN  IF read.raised THEN read ELSE _analyze_queries(read.queries)

\* the outcome of run_full_analysis
Report(analysis, aggregated) ==
    [state |-> "returned", report |-> aggregated.report, built |-> aggregated.built,
     searched |-> ~analysis.raised,
     queries |-> IF analysis.raised THEN <<>> ELSE analysis.queries]

\* run_full_analysis on a repository without recent commits and with no
\* community topic: the two results are objects without items
run_full_analysis(algolia_csv, algolia_json, clock) ==
    LET no_changes == Result(<<>>)
        no_topics == Result(<<>>)
        analysis == IF algolia_csv.given THEN analyze_from_csv(algolia_csv)
                    ELSE IF algolia_json.given THEN analyze_from_json(algolia_json)
                    ELSE InputError("NotGiven")
    IN  IF ~algolia_csv.given /\ ~algolia_json.given
        THEN Report(analysis, aggregate_all(no_changes, no_topics, NoResult,
                                            <<>>, <<>>, clock, <<>>))
        ELSE IF analysis.raised THEN Raised(analysis.exception)
        ELSE Report(analysis, aggregate_all(no_changes, no_topics,
                                            Result(analysis.suggested_docs),
                                            <<>>, <<>>, clock, <<>>))

NotRun == [state |-> "none"]

AlInit ==
    /\ al_csv \in {NotGiven, MissingFile} \cup {CsvFile(rows) : rows \in SeqsUpTo(CsvRows, MaxRows)}
    /\ al_json \in {NotGiven, MissingFile, UnparsableJson, JsonArray}
                      \cup {JsonFile(items) : items \in SeqsUpTo(JsonItems, MaxRows)}
    /\ al_outcome = NotRun

\* report = aggregator.run_full_analysis(repo_path, since_days, algolia_csv, algolia_json)
RunFullAnalysis ==
    /\ al_outcome = NotRun
    /\ al_outcome' = run_full_analysis(al_csv, al_json, 1)
    /\ UNCHANGED <<al_csv, al_json>>

InitSearchInput == AlInit /\ AggIdle /\ hashOrder = <<>> /\ DdIdle /\ DcIdle
    /\ DriftIdle /\ SlaIdle /\ FmIdle /\ SqIdle /\ CcIdle /\ CaIdle /\ BgIdle /\ DodIdle
    /\ SmIdle /\ CliIdle

NextSearchInput ==
    /\ RunFullAnalysis
    /\ UNCHANGED <<aggVars, ddVars, dcVars, driftVars, slaVars, fmVars, sqVars, ccVars, caVars
                   , bgVars, dodVars, smVars, cliVars>>

SpecSearchInput == InitSearchInput /\ [][NextSearchInput]_vars

----------------------------------------------------------------------------
(* Properties of the search-analytics input                                *)

\* the file that the run reads: the CSV export when given, else the JSON file
InputFile == IF al_csv.given THEN al_csv ELSE al_json

\* the file is missing, is not JSON, has another shape than {"queries": [...]},
\* or holds a count that is not a number
BadInputFile ==
    /\ InputFile.given
    /\ \/ ~InputFile.exists
       \/ /\ al_csv.given
          /\ \E i \in 1..Len(al_csv.rows) :
                /\ al_csv.rows[i].Search # <<>>
                /\ \E c \in 1..Len(al_csv.rows[i].Count) : ~IsDigit(al_csv.rows[i].Count[c])
       \/ /\ ~al_csv.given
          /\ \/ al_json.syntax = "invalid"
             \/ al_json.top = "array"
             \/ \E i \in 1..Len(al_json.queries) :
                   al_json.queries[i].query # <<>> /\ al_json.queries[i].count.kind = "str"

SearchGaps(gaps) == SelectSeq(gaps, LAMBDA g : g.source = <<"search">>)

\* C23: in a run of run_full_analysis, a search-analytics input file that is
\* missing, unparsable or malformed is caught and treated as absent: the run
\* returns a report and the search source contributes no gap.
C23_BadInputFileTreatedAsAbsent ==
    (al_outcome # NotRun /\ BadInputFile) =>
        /\ al_outcome.state = "returned"
        /\ SearchGaps(al_outcome.report.gaps) = <<>>

\* the part that holds: a CTR cell that is not a number counts as a rate of
\* 0, and a row without a search text is skipped whatever its other cells
C23_BadRateAndEmptyRowsTolerated ==
    (al_outcome # NotRun /\ al_csv.given /\ al_csv.exists
        /\ \A i \in 1..Len(al_csv.rows) :
              \/ al_csv.rows[i].Search = <<>>
              \/ \A c \in 1..Len(al_csv.rows[i].Count) : IsDigit(al_csv.rows[i].Count[c]))
    => /\ al_outcome.state = "returned"
       /\ Len(al_outcome.queries) =
             Len(SelectSeq(al_csv.rows, LAMBDA row : row.Search # <<>>))

\* the queries behind suggested_docs, in the order of the suggestions
Suggested(queries) ==
    LET result == _analyze_queries(queries).result
    IN  Prefix(result.no_results_queries, 20) \o Prefix(result.low_ctr_queries, 10)

\* the priority policy, on the fields of a query
PolicyPriority(query) ==
    IF query.results_count = 0 /\ query.count >= 10 THEN High
    ELSE IF query.results_count = 0 /\ query.count >= 5 THEN Medium
    ELSE IF query.click_through_rate < 10 /\ query.count >= 20 THEN High
    ELSE Low

\* C25: every gap that aggregate_all builds from a search suggestion carries,
\* before merging, the priority that the priority policy assigns to the
\* underlying query; a query with results, a click-through rate under 10% and
\* at least 20 searches yields a high gap.
C25_SearchGapsCarryPolicyPriority ==
    (al_outcome # NotRun /\ al_outcome.state = "returned") =>
        LET underlying == Suggested(al_outcome.queries)
        IN  /\ Len(al_outcome.built) = Len(underlying)
            /\ \A i \in 1..Len(underlying) :
                  al_outcome.built[i].priority = PolicyPriority(underlying[i])

\* the part that holds: the gap of a query without results carries the
\* priority of the policy, the gap of a query with unclicked results is medium
C25_NoResultGapsCarryPolicyPriority ==
    (al_outcome # NotRun /\ al_outcome.state = "returned") =>
        LET underlying == Suggested(al_outcome.queries)
        IN  /\ Len(al_outcome.built) = Len(underlying)
            /\ \A i \in 1..Len(underlying) :
                  al_outcome.built[i].priority =
                      IF underlying[i].results_count = 0 THEN PolicyPriority(underlying[i])
                      ELSE Medium


----------------------------------------------------------------------------
(* validate_pr_dod: the Definition-of-Done contract of a PR description    *)

MaxBodyLines == 3   \* lines of the PR body

\* the lines a PR body is made of
DodLines ==
    {"- [x] I updated documentation affected by this PR.",
     "- [ ] I updated documentation affected by this PR.",
     "-  [X]  Documentation updates are not needed.",
     "- [ ] Documentation updates are not needed.",
     "Reason: typo fixes",
     "Reason: typo fix.",
     "Reason: ",
     "Reason:",
     "reason :  internal refactoring only  ",
     "See the linked issue.",
     ""}

\* UPDATED_BOX.search(line): the ticked box 'I updated documentation ...'
UPDATED_BOX(line) ==
    CASE line = "- [x] I updated documentation affected by this PR." -> TRUE
      [] OTHER -> FALSE

\* NOT_NEEDED_BOX.search(line): the ticked box 'Documentation updates are not needed.'
NOT_NEEDED_BOX(line) ==
    CASE line = "-  [X]  Documentation updates are not needed." -> TRUE
      [] OTHER -> FALSE

\* the line holds 'Reason', white space and a colon, in any case
ReasonColon(line) ==
    CASE line = "Reason: typo fixes" -> TRUE
      [] line = "Reason: typo fix." -> TRUE
      [] line = "Reason: " -> TRUE
      [] line = "Reason:" -> TRUE
      [] line = "reason :  internal refactoring only  " -> TRUE
      [] OTHER -> FALSE

\* len(text.strip()) of the text after that colon, on the same line
ReasonOnLine(line) ==
    CASE line = "Reason: typo fixes" -> 10
      [] line = "Reason: typo fix." -> 9
      [] line = "reason :  internal refactoring only  " -> 25
      [] OTHER -> 0

\* the colon is followed, on its line, by blanks only
BlankAfterColon(line) ==
    CASE line = "Reason: " -> TRUE
      [] OTHER -> FALSE

\* len(line.strip())
StrippedLen(line) ==
    CASE line = "- [x] I updated documentation affected by this PR." -> 50
      [] line = "- [ ] I updated documentation affected by this PR." -> 50
      [] line = "-  [X]  Documentation updates are not needed." -> 45
      [] line = "- [ ] Documentation updates are not needed." -> 43
      [] line = "Reason: typo fixes" -> 18
      [] line = "Reason: typo fix." -> 17
      [] line = "Reason: " -> 7
      [] line = "Reason:" -> 7
      [] line = "reason :  internal refactoring only  " -> 35
      [] line = "See the linked issue." -> 21
      [] OTHER -> 0

\* REASON_LINE.search(body), body being the lines joined by line breaks: the
\* length of group(1).strip() for the leftmost match, -1 when nothing matches.
\* The white space after the colon may run over line breaks, so a colon with
\* nothing after it takes the next line that holds text.
RECURSIVE ReasonFrom(_, _)
ReasonFrom(body, i) ==
    IF i > Len(body) THEN -1
    ELSE IF ~ReasonColon(body[i]) THEN ReasonFrom(body, i + 1)
    ELSE IF ReasonOnLine(body[i]) > 0 THEN ReasonOnLine(body[i])
    ELSE LET later == {k \in (i + 1)..Len(body) : StrippedLen(body[k]) > 0}
         IN  IF later # {} THEN StrippedLen(body[CHOOSE k \in later : \A j \in later : k <= j])
             ELSE IF BlankAfterColon(body[i]) \/ \E k \in (i + 1)..Len(body) : body[k] # ""
                  THEN 0
                  ELSE -1

REASON_LINE(body) == ReasonFrom(body, 1)

Verdict(ok, message) == [ok |-> ok, message |-> message]

validate_dod(body) ==
    LET has_updated == \E i \in 1..Len(body) : UPDATED_BOX(body[i])
        has_not_needed == \E i \in 1..Len(body) : NOT_NEEDED_BOX(body[i])
    IN  IF ~has_updated /\ ~has_not_needed
        THEN Verdict(FALSE, "DoD contract is incomplete: select one checkbox in the PR template.")
        ELSE IF has_updated /\ has_not_needed
        THEN Verdict(FALSE, "DoD contract is invalid: select only one of the two documentation options.")
        ELSE IF has_not_needed /\ REASON_LINE(body) = -1
        THEN Verdict(FALSE, "DoD contract is incomplete: provide a reason for 'docs not needed'.")
        ELSE IF has_not_needed /\ REASON_LINE(body) < 10
        THEN Verdict(FALSE, "DoD contract reason is too short: provide a concrete explanation.")
        ELSE Verdict(TRUE, "DoD contract validation passed.")

\* pull_request.body of the event: a string, or null
BodyOf(lines) == [is_str |-> TRUE, lines |-> lines]

NullBody == [is_str |-> FALSE, lines |-> <<>>]

_load_body(event) == IF event.is_str THEN event.lines ELSE <<>>

\* main(): the verdict, the message printed and the exit code
DodMain(event) ==
    LET verdict == validate_dod(_load_body(event))
    IN  [ran |-> TRUE, ok |-> verdict.ok, printed |-> verdict.message,
         exit_code |-> IF verdict.ok THEN 0 ELSE 1]

DodInit ==
    /\ dod_event \in {NullBody} \cup {BodyOf(lines) : lines \in SeqsUpTo(DodLines, MaxBodyLines)}
    /\ dod_result = [ran |-> FALSE]

\* python3 validate_pr_dod.py --event-path <event>
ValidateDod ==
    /\ ~dod_result.ran
    /\ dod_result' = DodMain(dod_event)
    /\ UNCHANGED dod_event

InitDod == DodInit /\ AggIdle /\ hashOrder = <<>> /\ DdIdle /\ DcIdle /\ DriftIdle
    /\ SlaIdle /\ FmIdle /\ SqIdle /\ CcIdle /\ CaIdle /\ BgIdle /\ AlIdle /\ SmIdle
    /\ CliIdle

NextDod ==
    /\ ValidateDod
    /\ UNCHANGED <<aggVars, ddVars, dcVars, driftVars, slaVars, fmVars, sqVars, ccVars, caVars
                   , bgVars, alVars, smVars, cliVars>>

SpecDod == InitDod /\ [][NextDod]_vars

----------------------------------------------------------------------------
(* Properties of the Definition-of-Done contract                           *)

UpdatedTicked == \E i \in 1..Len(dod_event.lines) : UPDATED_BOX(dod_event.lines[i])

NotNeededTicked == \E i \in 1..Len(dod_event.lines) : NOT_NEEDED_BOX(dod_event.lines[i])

\* the body has a 'Reason:' line whose trimmed text has at least 10 characters
HasReasonLineOfTen ==
    \E i \in 1..Len(dod_event.lines) :
        ReasonColon(dod_event.lines[i]) /\ ReasonOnLine(dod_event.lines[i]) >= 10

\* C26: validate_dod accepts a PR body iff exactly one of the two
\* documentation checkboxes is ticked and, when it is 'Documentation updates
\* are not needed', the body has a 'Reason:' line whose trimmed text is at
\* least 10 characters; the exit code is 0 iff the body is accepted, else 1.
C26_AcceptedIffOneBoxAndReasonLine ==
    dod_result.ran =>
        /\ dod_result.ok <=> /\ UpdatedTicked # NotNeededTicked
                             /\ NotNeededTicked => HasReasonLineOfTen
        /\ dod_result.exit_code = (IF dod_result.ok THEN 0 ELSE 1)

\* the part that holds: the boxes decide as stated, the exit code follows the
\* verdict, and a body whose only 'Reason:' line is the line right after the
\* ticked box is judged by the text of that line
C26_BoxesAndExitCode ==
    dod_result.ran =>
        /\ dod_result.ok => UpdatedTicked # NotNeededTicked
        /\ (UpdatedTicked /\ ~NotNeededTicked) => dod_result.ok
        /\ dod_result.exit_code = (IF dod_result.ok THEN 0 ELSE 1)
        /\ (NotNeededTicked /\ ~UpdatedTicked
               /\ Len(SelectSeq(dod_event.lines, ReasonColon)) = 1
               /\ ReasonOnLine(SelectSeq(dod_event.lines, ReasonColon)[1]) > 0)
              => (dod_result.ok <=> HasReasonLineOfTen)


----------------------------------------------------------------------------
(* check_code_examples_smoke: the fenced blocks of a markdown file and     *)
(* the smoke run                                                           *)

MaxLines == 4       \* lines of the markdown file

\* the run of three backtick characters of a fence
Backticks == "<three backticks>"

\* the lines a markdown file is made of, as runs of characters
SmokeLines ==
    {<<Backticks, "python smoke">>,
     <<Backticks>>,
     <<"  ", Backticks, "json smoke extra  ">>,
     <<Backticks, "smoke">>,
     <<"see ", Backticks, " here">>,
     <<"{\"a\": 1}">>,
     <<"{bad">>}

\* line.strip().startswith(three backticks)
IsFence(line) ==
    line \in {<<Backticks, "python smoke">>, <<Backticks>>, <<"  ", Backticks, "json smoke extra  ">>, <<Backticks, "smoke">>}

\* tokens[0] of the text after the backticks, in lower case, or ''
LanguageOf(line) ==
    CASE line = <<Backticks, "python smoke">> -> "python"
      [] line = <<Backticks>> -> ""
      [] line = <<"  ", Backticks, "json smoke extra  ">> -> "json"
      [] line = <<Backticks, "smoke">> -> "smoke"

\* set(tokens[1:])
TagsOf(line) ==
    CASE line = <<Backticks, "python smoke">> -> {"smoke"}
      [] line = <<Backticks>> -> {}
      [] line = <<"  ", Backticks, "json smoke extra  ">> -> {"extra", "smoke"}
      [] line = <<Backticks, "smoke">> -> {}

\* json.loads(content) succeeds
JsonLoads(content) ==
    content \in {<<<<"{\"a\": 1}">>>>}

CodeBlock(line, language, tags, content) ==
    [line |-> line, language |-> language, tags |-> tags, content |-> content]

\* a parser for which a fence with an info string always opens a block
RECURSIVE ParseFrom_InfoOpens(_, _, _, _)
ParseFrom_InfoOpens(lines, index, open, blocks) ==
    IF index > Len(lines) THEN blocks
    ELSE LET line == lines[index]
         IN  IF IsFence(line) /\ (~open.in_block \/ LanguageOf(line) # "")
             THEN ParseFrom_InfoOpens(lines, index + 1,
                            [in_block |-> TRUE, start_line |-> index,
                             language |-> LanguageOf(line), tags |-> TagsOf(line),
                             body |-> <<>>],
                            blocks)
             ELSE IF open.in_block /\ IsFence(line)
             THEN ParseFrom_InfoOpens(lines, index + 1, [open EXCEPT !.in_block = FALSE],
                            Append(blocks, CodeBlock(open.start_line, open.language,
                                                     open.tags, open.body)))
             ELSE IF open.in_block
             THEN ParseFrom_InfoOpens(lines, index + 1,
                                      [open EXCEPT !.body = Append(@, line)], blocks)
             ELSE ParseFrom_InfoOpens(lines, index + 1, open, blocks)

\* the loop of _parse_blocks from line `index` on; the lines of the pool are
\* not empty, so "\n".join(body).strip("\n") keeps every line of the body
RECURSIVE ParseFrom(_, _, _, _)
ParseFrom(lines, index, open, blocks) ==
    IF index > Len(lines) THEN blocks
    ELSE LET line == lines[index]
         IN  IF ~open.in_block /\ IsFence(line)
             THEN ParseFrom(lines, index + 1,
                            [in_block |-> TRUE, start_line |-> index,
                             language |-> LanguageOf(line), tags |-> TagsOf(line),
                             body |-> <<>>],
                            blocks)
             ELSE IF open.in_block /\ IsFence(line)
             THEN ParseFrom(lines, index + 1, [open EXCEPT !.in_block = FALSE],
                            Append(blocks, CodeBlock(open.start_line, open.language,
                                                     open.tags, open.body)))
             ELSE IF open.in_block
             THEN ParseFrom(lines, index + 1, [open EXCEPT !.body = Append(@, line)], blocks)
             ELSE ParseFrom(lines, index + 1, open, blocks)

_parse_blocks(lines) ==
    ParseFrom(lines, 1,
              [in_block |-> FALSE, start_line |-> 0, language |-> "", tags |-> {},
               body |-> <<>>],
              <<>>)

\* what the interpreter started for a block does: it exits with status 0,
\* exits with another status, or is still running when the timeout expires
Outcomes == {"pass", "fail", "timeout"}

Checked(ok) == [raised |-> FALSE, ok |-> ok]

\* subprocess.run(..., timeout=timeout) in _run_python, _run_bash, _run_js
RunProcess(outcome) ==
    IF outcome = "timeout" THEN [raised |-> TRUE, exception |-> "TimeoutExpired"]
    ELSE Checked(outcome = "pass")

_run_smoke_block(block, outcome) ==
    IF block.language \in {"python", "py"} THEN RunProcess(outcome)
    ELSE IF block.language \in {"bash", "sh", "shell"} THEN RunProcess(outcome)
    ELSE IF block.language = "json" THEN Checked(JsonLoads(block.content))
    ELSE IF block.language \in {"yaml", "yml"} THEN Checked(outcome # "fail")
    ELSE IF block.language \in {"javascript", "js"} THEN RunProcess(outcome)
    ELSE Checked(FALSE)

SmokeReturned(code, blocks, executed, failures) ==
    [state |-> "returned", code |-> code, blocks |-> blocks, executed |-> executed,
     failures |-> failures]

SmokeRaised(exception, blocks, executed, failures) ==
    [state |-> "raised", exception |-> exception, blocks |-> blocks,
     executed |-> executed, failures |-> failures]

\* the loop over smoke_blocks: executed and failures hold the start lines
RECURSIVE SmokeLoop(_, _, _, _, _, _)
SmokeLoop(blocks, smoke_blocks, i, outcomes, executed, failures) ==
    IF i > Len(smoke_blocks)
    THEN SmokeReturned(IF failures # <<>> THEN 1 ELSE 0, blocks, executed, failures)
    ELSE LET block == smoke_blocks[i]
             check == _run_smoke_block(block, outcomes[i])
         IN  IF check.raised
             THEN SmokeRaised(check.exception, blocks, Append(executed, block.line), failures)
             ELSE SmokeLoop(blocks, smoke_blocks, i + 1, outcomes,
                            Append(executed, block.line),
                            IF check.ok THEN failures ELSE Append(failures, block.line))

SmokeBlocks(blocks) == SelectSeq(blocks, LAMBDA block : "smoke" \in block.tags)

\* run_smoke on one markdown file
run_smoke(lines, allow_empty, outcomes) ==
    LET blocks == _parse_blocks(lines)
        smoke_blocks == SmokeBlocks(blocks)
    IN  IF smoke_blocks = <<>> /\ ~allow_empty THEN SmokeReturned(1, blocks, <<>>, <<>>)
        ELSE SmokeLoop(blocks, smoke_blocks, 1, outcomes, <<>>, <<>>)

SmInit ==
    /\ sm_lines \in SeqsUpTo(SmokeLines, MaxLines)
    /\ sm_allow_empty \in BOOLEAN
    /\ sm_outcomes = <<>>
    /\ sm_result = [state |-> "none"]

\* run_smoke(paths, timeout, allow_empty)
RunSmoke ==
    /\ sm_result.state = "none"
    /\ \E outcomes \in [1..Len(SmokeBlocks(_parse_blocks(sm_lines))) -> Outcomes] :
          /\ sm_outcomes' = outcomes
          /\ sm_result' = run_smoke(sm_lines, sm_allow_empty, outcomes)
    /\ UNCHANGED <<sm_lines, sm_allow_empty>>

InitSmoke == SmInit /\ AggIdle /\ hashOrder = <<>> /\ DdIdle /\ DcIdle /\ DriftIdle
    /\ SlaIdle /\ FmIdle /\ SqIdle /\ CcIdle /\ CaIdle /\ BgIdle /\ AlIdle /\ DodIdle
    /\ CliIdle

NextSmoke ==
    /\ RunSmoke
    /\ UNCHANGED <<aggVars, ddVars, dcVars, driftVars, slaVars, fmVars, sqVars, ccVars, caVars
                   , bgVars, alVars, dodVars, cliVars>>

SpecSmoke == InitSmoke /\ [][NextSmoke]_vars

----------------------------------------------------------------------------
(* Properties of the smoke run                                             *)

SmokeRan == sm_result.state # "none"

\* the positions of the fence lines of the file, in order
FencePositions == SelectSeq([i \in 1..Len(sm_lines) |-> i], LAMBDA i : IsFence(sm_lines[i]))

\* the check of the i-th smoke-tagged block passes
Passes(i) ==
    LET block == SmokeBlocks(sm_result.blocks)[i]
    IN  IF block.language = "json" THEN JsonLoads(block.content)
        ELSE block.language = "python" /\ sm_outcomes[i] = "pass"

StartLines(blocks) == [i \in 1..Len(blocks) |-> blocks[i].line]

\* C27: run_smoke returns 0 iff at least one smoke-tagged block was found or
\* allow_empty is set, and every smoke-tagged block passes its language
\* check; every smoke-tagged block is checked even after an earlier one
\* failed, and a block without the smoke tag is never executed.
C27_ZeroIffAllSmokeBlocksPass ==
    SmokeRan =>
        LET smoke == SmokeBlocks(sm_result.blocks)
        IN  /\ (sm_result.state = "returned" /\ sm_result.code = 0)
                  <=> /\ smoke # <<>> \/ sm_allow_empty
                      /\ \A i \in 1..Len(smoke) : Passes(i)
            /\ (smoke # <<>> \/ sm_allow_empty) => sm_result.executed = StartLines(smoke)
            /\ \A k \in 1..Len(sm_result.executed) :
                  \E i \in 1..Len(smoke) : smoke[i].line = sm_result.executed[k]

\* the part that holds: the same, when no check runs into the timeout
C27_ZeroIffAllPassWithoutTimeout ==
    (SmokeRan /\ \A i \in 1..Len(sm_outcomes) :
                    sm_outcomes[i] = "timeout"
                        => SmokeBlocks(sm_result.blocks)[i].language = "json")
    => LET smoke == SmokeBlocks(sm_result.blocks)
       IN  /\ sm_result.state = "returned"
           /\ sm_result.code = 0
                  <=> /\ smoke # <<>> \/ sm_allow_empty
                      /\ \A i \in 1..Len(smoke) : Passes(i)
           /\ (smoke # <<>> \/ sm_allow_empty) => sm_result.executed = StartLines(smoke)
           /\ \A k \in 1..Len(sm_result.executed) :
                 \E i \in 1..Len(smoke) : smoke[i].line = sm_result.executed[k]

\* C28: fence lines alternate between opening and closing a block, whatever
\* follows the backticks: a file with n fence lines yields floor(n/2)
\* blocks, the i-th from the fence lines 2i-1 and 2i, and a block left open
\* at the end of the file is discarded.
C28_FencesAlternate ==
    SmokeRan =>
        LET fences == FencePositions
            blocks == sm_result.blocks
        IN  /\ Len(blocks) = Len(fences) \div 2
            /\ \A i \in 1..Len(blocks) :
                  /\ blocks[i].line = fences[2 * i - 1]
                  /\ blocks[i].language = LanguageOf(sm_lines[fences[2 * i - 1]])
                  /\ blocks[i].tags = TagsOf(sm_lines[fences[2 * i - 1]])
                  /\ blocks[i].content =
                        SubSeq(sm_lines, fences[2 * i - 1] + 1, fences[2 * i] - 1)

\* three fence lines: the second, with an info string, closes the block of
\* the first, and the block the third opens is discarded
C28_Witness ==
    /\ SmokeRan
    /\ Len(FencePositions) = 3
    /\ LanguageOf(sm_lines[FencePositions[2]]) = "json"
    /\ Len(sm_result.blocks) = 1
    /\ Len(sm_result.blocks[1].content) = 1

----------------------------------------------------------------------------
(* Properties of _deduplicate_gaps: what a merge leaves alone              *)

\* the list objects as the latest aggregate_all call had them when
\* _deduplicate_gaps began
BuiltHeap ==
    BuildGaps(code_result, community_result, algolia_result, heapBefore, now - 1,
              Prefix(reports, Len(reports) - 1)).heap

\* C30: the gap that survives a merge keeps the id, title, description,
\* source, related_files, action_required and status of the first-seen gap
\* of its key; only frequency, sample_queries, keywords and priority may
\* change; a gap whose key is unique is returned unchanged.
C30_MergeKeepsFirstSeenFields ==
    reports # <<>> =>
        \A key \in Keys(built) :
            LET same == WithKey(built, key)
                first == same[1]
                kept == WithKey(LastReport.gaps, key)
            IN  /\ Len(kept) = 1
                /\ \A field \in {"id", "title", "description", "source", "category",
                                 "suggested_doc_type", "related_files", "action_required",
                                 "status", "created_at"} :
                      kept[1][field] = first[field]
                /\ heap[kept[1].related_files] = BuiltHeap[first.related_files]
                /\ Len(same) = 1 =>
                      /\ kept[1] = first
                      /\ \A list \in {first.keywords, first.related_files, first.sample_queries} :
                            heap[list] = BuiltHeap[list]

\* a community gap and a search gap of one key were merged, and a gap of
\* another key went through alone
C30_Witness ==
    /\ reports # <<>>
    /\ \E key \in Keys(built) :
          /\ Len(WithKey(built, key)) >= 2
          /\ WithKey(built, key)[1].source # WithKey(built, key)[2].source
          /\ WithKey(built, key)[1].description # WithKey(built, key)[2].description
    /\ \E key \in Keys(built) : Len(WithKey(built, key)) = 1


----------------------------------------------------------------------------
(* gap_detection/cli.py: the arguments, the command and the exit code      *)

MaxArgs == 3        \* command-line arguments after the program name

ArgTokens ==
    {"analyze", "generate", "community", "--report", "r.json", "--since", "7", "x",
     "-h", "--bogus", "--limit"}

\* the token starts with '-': argparse takes it for an option
IsOptionString(token) ==
    token \in {"-h", "--bogus", "--report", "--since", "--limit", "--repo", "--output-dir",
               "--algolia-csv", "--algolia-json", "--max", "--priority", "--use-claude",
               "--generate", "--tag"}

\* int(token) succeeds
IsIntString(token) == token \in {"7"}

\* the options of a sub-parser: "str" and "int" take one argument, "flag" none
Subparsers ==
    [analyze |-> [options |-> ("--repo" :> "str") @@ ("--since" :> "int")
                                @@ ("--output-dir" :> "str") @@ ("--algolia-csv" :> "str")
                                @@ ("--algolia-json" :> "str"),
                  required |-> {}],
     generate |-> [options |-> ("--report" :> "str") @@ ("--max" :> "int")
                                 @@ ("--priority" :> "str") @@ ("--use-claude" :> "flag"),
                   required |-> {"--report"}],
     full |-> [options |-> ("--repo" :> "str") @@ ("--since" :> "int")
                             @@ ("--output-dir" :> "str") @@ ("--generate" :> "flag")
                             @@ ("--max" :> "int") @@ ("--priority" :> "str")
                             @@ ("--use-claude" :> "flag") @@ ("--algolia-csv" :> "str")
                             @@ ("--algolia-json" :> "str"),
               required |-> {}],
     community |-> [options |-> ("--limit" :> "int"), required |-> {}],
     code |-> [options |-> ("--repo" :> "str") @@ ("--since" :> "int") @@ ("--tag" :> "str"),
               required |-> {}]]

\* the sub-parser of a command on the arguments after the command: "help",
\* "error" (exit status 2) or "run"
RECURSIVE SubParse(_, _, _, _, _)
SubParse(command, rest, i, seen, extras) ==
    LET options == Subparsers[command].options
    IN  IF i > Len(rest)
        THEN IF Subparsers[command].required \ seen # {} \/ extras THEN "error" ELSE "run"
        ELSE IF rest[i] = "-h" THEN "help"
        ELSE IF rest[i] \in DOMAIN options
        THEN IF options[rest[i]] = "flag"
             THEN SubParse(command, rest, i + 1, seen \cup {rest[i]}, extras)
             ELSE IF i + 1 > Len(rest) \/ IsOptionString(rest[i + 1]) THEN "error"
             ELSE IF options[rest[i]] = "int" /\ ~IsIntString(rest[i + 1]) THEN "error"
             ELSE SubParse(command, rest, i + 2, seen \cup {rest[i]}, extras)
        ELSE SubParse(command, rest, i + 1, seen, TRUE)

Parsed_(kind, command) == [kind |-> kind, command |-> command]

\* parser.parse_args(): "help" (exit status 0), "error" (exit status 2),
\* "none" (no command on the line) or "run" with the command
RECURSIVE ParseArgs(_, _, _)
ParseArgs(argv, i, extras) ==
    IF i > Len(argv) THEN Parsed_(IF extras THEN "error" ELSE "none", "")
    ELSE IF argv[i] = "-h" THEN Parsed_("help", "")
    ELSE IF IsOptionString(argv[i]) THEN ParseArgs(argv, i + 1, TRUE)
    ELSE IF argv[i] \notin DOMAIN Subparsers THEN Parsed_("error", "")
    ELSE LET sub == SubParse(argv[i], SubSeq(argv, i + 1, Len(argv)), 1, {}, FALSE)
         IN  IF sub = "help" THEN Parsed_("help", "")
             ELSE IF sub = "error" \/ extras THEN Parsed_("error", "")
             ELSE Parsed_("run", argv[i])

Exit(code, called, unhandled) ==
    [ran |-> TRUE, code |-> code, called |-> called, unhandled |-> unhandled]

\* a main() for which a line without a command is a success
main_NoCommandSucceeds(argv, handler) ==
    LET args == ParseArgs(argv, 1, FALSE)
    IN  IF args.kind = "help" THEN Exit(0, "", FALSE)
        ELSE IF args.kind = "error" THEN Exit(2, "", FALSE)
        ELSE IF args.kind = "none" THEN Exit(0, "", FALSE)
        ELSE IF handler = "raises" THEN Exit(1, args.command, TRUE)
        ELSE Exit(0, args.command, FALSE)

\* main(): parse_args, sys.exit(1) after the help when there is no command,
\* else args.func(args); an exception of the function ends the process with
\* a traceback and status 1
main(argv, handler) ==
    LET args == ParseArgs(argv, 1, FALSE)
    IN  IF args.kind = "help" THEN Exit(0, "", FALSE)
        ELSE IF args.kind = "error" THEN Exit(2, "", FALSE)
        ELSE IF args.kind = "none" THEN Exit(1, "", FALSE)
        ELSE IF handler = "raises" THEN Exit(1, args.command, TRUE)
        ELSE Exit(0, args.command, FALSE)

CliInit ==
    /\ cli_argv \in SeqsUpTo(ArgTokens, MaxArgs)
    /\ cli_handler \in {"returns", "raises"}
    /\ cli_exit = [ran |-> FALSE]

\* python -m gap_detection.cli <argv>
RunCli ==
    /\ ~cli_exit.ran
    /\ cli_exit' = main(cli_argv, cli_handler)
    /\ UNCHANGED <<cli_argv, cli_handler>>

InitCli == CliInit /\ AggIdle /\ hashOrder = <<>> /\ DdIdle /\ DcIdle /\ DriftIdle
    /\ SlaIdle /\ FmIdle /\ SqIdle /\ CcIdle /\ CaIdle /\ BgIdle /\ AlIdle /\ DodIdle
    /\ SmIdle

NextCli ==
    /\ RunCli
    /\ UNCHANGED <<aggVars, ddVars, dcVars, driftVars, slaVars, fmVars, sqVars, ccVars, caVars
                   , bgVars, alVars, dodVars, smVars>>

SpecCli == InitCli /\ [][NextCli]_vars

----------------------------------------------------------------------------
(* Properties of the command line                                          *)

\* C24 (as stated): the exit code is 0 for every invocation that ends
\* without an unhandled exception, and non-zero only when one is raised.
C24_NonZeroOnlyOnUnhandledException ==
    cli_exit.ran => (cli_exit.code # 0 <=> cli_exit.unhandled)

CommandNamed == \E i \in 1..Len(cli_argv) : cli_argv[i] \in DOMAIN Subparsers

\* C24 (amended): the exit code is 0 when the function of the command
\* returns or help is asked for, 1 when the line names no command or the
\* function of the command raises, and 2 when the arguments are rejected;
\* without an unhandled exception a non-zero code means no command ran.
C24_ExitCodeByOutcome ==
    cli_exit.ran =>
        /\ cli_exit.code \in {0, 1, 2}
        /\ cli_exit.unhandled <=> (cli_exit.called # "" /\ cli_handler = "raises")
        /\ cli_exit.unhandled => cli_exit.code = 1
        /\ (cli_exit.called # "" /\ cli_handler = "returns") => cli_exit.code = 0
        /\ cli_exit.code = 0 =>
              \/ cli_exit.called # "" /\ cli_handler = "returns"
              \/ \E i \in 1..Len(cli_argv) : cli_argv[i] = "-h"
        /\ (cli_exit.code # 0 /\ ~cli_exit.unhandled) => cli_exit.called = ""
        /\ (\A i \in 1..Len(cli_argv) : cli_argv[i] \notin DOMAIN Subparsers \cup {"-h"})
              => cli_exit.code = (IF cli_argv = <<>> THEN 1 ELSE 2)
        /\ (cli_exit.code = 1 /\ ~cli_exit.unhandled) => cli_argv = <<>>

\* no command on the line: the help is printed and the exit code is 1,
\* without any exception
C24_Witness ==
    /\ cli_exit.ran
    /\ cli_argv = <<>>
    /\ cli_exit.code = 1
    /\ ~cli_exit.unhandled

\* rejected arguments: exit code 2, no command function ran
C24_WitnessRejected ==
    /\ cli_exit.ran
    /\ cli_argv = <<"generate", "--since", "7">>
    /\ cli_exit.code = 2
    /\ ~cli_exit.unhandled

====
